---- MODULE Spec2Model ----
(***************************************************************************)
(* The demand-driven frame pump FFMPEGVideo::GetNextFrame of               *)
(* python/src/bindings.cpp, with the three collaborators it drives         *)
(* (av_read_frame, avcodec_send_packet / avcodec_receive_frame,            *)
(* av_buffersrc_add_frame_flags / av_buffersink_get_frame) modelled by     *)
(* their status contract.  One action per stage call of the pump; the      *)
(* program counter pc[t] is the place of caller t inside GetNextFrame.     *)
(* Beside the pump (Spec, LiveSpec, and RaceSpec for two callers):         *)
(* get_hw_format (HwSpec), the total-frames step of init() and of the      *)
(* README's sample program (TotalSpec), the references acquired and        *)
(* released from constructor to destructor (SetupSpec), and the storage    *)
(* of the frame handed to a C++ and to a Python caller (BindSpec).         *)
(***************************************************************************)
EXTENDS Integers, Sequences, FiniteSets, TLC

\* ------------------------------------------------------------ bounds
\* Longest packet stream the demuxer holds.
MaxPkts == 3
\* Number of unrecoverable statuses the collaborators report in one session.
MaxFaults == 1
\* Packets the decoder queues before avcodec_send_packet answers EAGAIN.
DecCap == 2

\* ------------------------------------------------------------ constants
\* The stream index av_find_best_stream selected; every other index is
\* another (audio, subtitle) stream of the container.
video_stream_idx == 0
OtherStreamIdx == 1
\* libavutil's "no timestamp" value, kept symbolic (INT64_MIN in the build).
AV_NOPTS_VALUE == -1

Threads == {1, 2}
StreamIdxs == {video_stream_idx, OtherStreamIdx}
\* Width and height of the sink's input link when the graph was configured,
\* and the size the picture of frame id carries when it leaves the graph (the
\* graph is taken to change its output size from one picture to the next).
SinkDim == <<4, 2>>
DimOf(id) == IF id % 2 = 1 THEN SinkDim ELSE <<2, 4>>
\* nb_components of the pixel format the sink was configured with; 0 stands
\* for a format av_pix_fmt_desc_get does not know.
Components == {0, 1, 3, 4}

NoPkt == [stream_index |-> -1, id |-> 0]
NoFrame == [id |-> 0, pts |-> AV_NOPTS_VALUE, bet |-> AV_NOPTS_VALUE]
NoFilt == [id |-> 0, pts |-> AV_NOPTS_VALUE, w |-> 0, h |-> 0, nb |-> 0]
NoMat == [id |-> 0, rows |-> 0, cols |-> 0, channels |-> 0]

\* Presentation timestamp of the frame coded in packet id: 0, 30, 60, ...
PtsOf(id) == 30 * (id - 1)

VARIABLES
    \* --- FFMPEGVideo members
    initialized, frame_count_, total_frames_, frame_width_, frame_height_,
    video_time_base_, current_frame_pts_, current_frame_time_seconds_,
    pkt, frame, filt_frame,
    \* --- locals of GetNextFrame, per caller
    callers, pc, end_of_input_reached, output_mat,
    \* --- PacketSource: the container's packets and the read position
    stream, rd,
    \* --- DecodeStage: queued frames, draining mode
    dec_q, dec_draining,
    \* --- TransformStage: queued frames, end-of-input signalled, and the
    \* --- component count of its output pixel format
    flt_q, flt_eof, sink_nb,
    \* --- unrecoverable statuses: whether the collaborators of this session
    \* --- may report them, and how many they reported
    may_fault, faults,
    \* --- observation (history) variables
    returned, lastFrame, lastWhy, ops, fatalOps, lastOp, lastSt, unretrieved,
    finished,
    afterFin, read_ids, accepted, eofMark, overlapped,
    \* --- format negotiation: the list the decoder offers to the get_format
    \* --- callback and the format the callback answered
    pix_fmts, hw_fmt,
    \* --- the selected stream as the container declares it (AVStream), and
    \* --- the total the sample program of the README works out for it (a
    \* --- sequence: empty until it is worked out)
    nb_frames, duration, avg_frame_rate, time_base, sample_total,
    \* --- the native references of the object: where construction or
    \* --- destruction stands, and how often each reference was acquired and
    \* --- released
    at, acquired, released,
    \* --- storage: the buffers of the matrices (by address), the matrix of a
    \* --- C++ caller and the array a Python caller holds
    heap, caller_mat, py_array

members == <<initialized, frame_count_, total_frames_, frame_width_,
             frame_height_,
             video_time_base_, current_frame_pts_,
             current_frame_time_seconds_>>
slots == <<pkt, frame, filt_frame>>
locals == <<callers, pc, end_of_input_reached, output_mat>>
stages == <<stream, rd, dec_q, dec_draining, flt_q, flt_eof, sink_nb,
            may_fault, faults>>
history == <<returned, lastFrame, lastWhy, ops, fatalOps, lastOp, lastSt,
             unretrieved,
             finished, afterFin,
             read_ids, accepted, eofMark, overlapped>>
negotiation == <<pix_fmts, hw_fmt>>
metadata == <<nb_frames, duration, avg_frame_rate, time_base>>
resources == <<at, acquired, released>>
storage == <<heap, caller_mat, py_array>>
\* What the steps of the pump leave alone: what construction settles, and the
\* addresses of the buffers, which the pump does not follow.
construction == <<negotiation, metadata, sample_total, resources, storage>>
vars == <<members, slots, locals, stages, history, construction>>

\* ------------------------------------------------------------ helpers
RECURSIVE SeqsUpTo(_, _)
SeqsUpTo(S, n) ==
    IF n = 0 THEN {<<>>}
    ELSE LET shorter == SeqsUpTo(S, n - 1)
         IN  shorter \cup {Append(q, x) : q \in {r \in shorter : Len(r) = n - 1}, x \in S}

\* Ids (positions) of the packets of the selected stream, in container order.
RECURSIVE VideoIdsFrom(_, _)
VideoIdsFrom(st, i) ==
    IF i > Len(st) THEN <<>>
    ELSE IF st[i] = video_stream_idx
         THEN <<i>> \o VideoIdsFrom(st, i + 1)
         ELSE VideoIdsFrom(st, i + 1)
VideoIds == VideoIdsFrom(stream, 1)

IsPrefix(p, q) == Len(p) <= Len(q) /\ SubSeq(q, 1, Len(p)) = p

\* ------------------------------------------------------------ double
\* IEEE-754 binary64 values as the build computes them.  A double is
\* [sign, exp, man]: man is the significand, DoublePrec bits, most
\* significant first and normalised (man[1] = 1); its value is
\* (-1)^sign * man * 2^exp.  Zero has the empty significand.  Every operator
\* works on bit strings in pieces of LimbBits bits, so that no intermediate
\* number leaves the 32-bit range of the integers used.
DoublePrec == 53
LimbBits == 8
DZero == [sign |-> 0, exp |-> 0, man |-> <<>>]

RECURSIVE Pow2(_)
Pow2(n) ==
    IF n = 0 THEN 1
    ELSE LET h == Pow2(n \div 2) IN IF n % 2 = 1 THEN 2 * h * h ELSE h * h

Zeros(n) == [i \in 1..n |-> 0]

\* Binary digits of 0 < n < 2^30, most significant first.
BitsOf(n) ==
    LET k == CHOOSE j \in 1..30 : Pow2(j - 1) <= n /\ n < Pow2(j)
    IN  [i \in 1..k |-> (n \div Pow2(k - i)) % 2]

RECURSIVE ValueOf(_, _, _)
\* The integer the bits b[lo..hi] denote (a short piece).
ValueOf(b, lo, hi) ==
    IF hi < lo THEN 0 ELSE 2 * ValueOf(b, lo, hi - 1) + b[hi]

\* b without its leading zeros.
StripLeading(b) ==
    LET ones == {i \in 1..Len(b) : b[i] = 1}
    IN  IF ones = {} THEN <<>>
        ELSE SubSeq(b, CHOOSE i \in ones : \A k \in ones : i <= k, Len(b))

\* b without its trailing zeros.
StripZeros(b) ==
    LET ones == {i \in 1..Len(b) : b[i] = 1}
    IN  IF ones = {} THEN <<>>
        ELSE SubSeq(b, 1, CHOOSE i \in ones : \A k \in ones : k <= i)

\* b + 1 on bit strings; the result is one bit longer when b is all ones.
Incr(b) ==
    LET zeros == {i \in 1..Len(b) : b[i] = 0}
    IN  IF zeros = {} THEN <<1>> \o Zeros(Len(b))
        ELSE LET j == CHOOSE i \in zeros : \A k \in zeros : k <= i
             IN  [i \in 1..Len(b) |-> IF i < j THEN b[i] ELSE IF i = j THEN 1 ELSE 0]

\* Round-to-nearest-even of the exact value b * 2^e (b a bit string with
\* b[1] = 1), where sticky says that non-zero bits below b were dropped.
RoundBits(sign, b, e, sticky) ==
    IF Len(b) <= DoublePrec
    THEN [sign |-> sign, exp |-> e - (DoublePrec - Len(b)),
          man |-> b \o Zeros(DoublePrec - Len(b))]
    ELSE LET kept == SubSeq(b, 1, DoublePrec)
             rest == SubSeq(b, DoublePrec + 1, Len(b))
             drop == Len(rest)
             half == rest[1] = 1
             below == sticky \/ \E i \in 2..drop : rest[i] = 1
             up == half /\ (below \/ kept[DoublePrec] = 1)
             r == IF up THEN Incr(kept) ELSE kept
         IN  IF Len(r) > DoublePrec
             THEN [sign |-> sign, exp |-> e + drop + 1,
                   man |-> SubSeq(r, 1, DoublePrec)]
             ELSE [sign |-> sign, exp |-> e + drop, man |-> r]

\* The value of one piece: 2^LimbBits.
LimbBase == Pow2(LimbBits)

RECURSIVE LimbRem(_, _, _)
\* The remainder of r * 2^(LimbBits * j) modulo d, for 0 <= r < d < 2^23.
LimbRem(r, d, j) ==
    IF j = 0 THEN r ELSE (LimbRem(r, d, j - 1) * LimbBase) % d

\* The first nl pieces of the binary expansion of r / d, as bits.
QuotBits(r, d, nl) ==
    LET piece == SubSeq([j \in 1..nl |-> (LimbRem(r, d, j - 1) * LimbBase) \div d],
                        1, nl)
    IN  [i \in 1..(nl * LimbBits) |->
            (piece[((i - 1) \div LimbBits) + 1]
                \div Pow2(LimbBits - 1 - ((i - 1) % LimbBits))) % 2]

\* The k with d * 2^k <= n < d * 2^(k+1), for n, d > 0.
NormShift(n, d) ==
    IF n >= d
    THEN CHOOSE j \in 0..29 : n \div Pow2(j) >= d /\ n \div Pow2(j + 1) < d
    ELSE -(CHOOSE j \in 1..30 : n * Pow2(j) >= d /\ n * Pow2(j - 1) < d)

\* n / (double) d: the quotient of two positive ints, rounded once to nearest
\* even (n < 2^23, and d * 2^k < 2^23 for the k that brings n / d into [1, 2)).
DoubleOfRatio(n, d) ==
    LET k == NormShift(n, d)
        nn == IF k < 0 THEN n * Pow2(-k) ELSE n
        dd == IF k > 0 THEN d * Pow2(k) ELSE d
        nl == (DoublePrec \div LimbBits) + 1
        digits == <<1>> \o QuotBits(nn - dd, dd, nl)
    IN  RoundBits(0, digits, k - nl * LimbBits, LimbRem(nn - dd, dd, nl) # 0)

\* av_q2d: a.num / (double) a.den.
av_q2d(a) == DoubleOfRatio(a[1], a[2])

\* Piece k (1 is the least significant) of the bit string b, whose length is
\* a multiple of LimbBits.
Limb(b, k) == ValueOf(b, Len(b) - LimbBits * k + 1, Len(b) - LimbBits * (k - 1))

RECURSIVE MulCarry(_, _, _)
\* The carry out of piece k when the pieces l (least significant first) are
\* multiplied by m < 2^20.
MulCarry(l, m, k) ==
    IF k = 0 THEN 0 ELSE (l[k] * m + MulCarry(l, m, k - 1)) \div Pow2(LimbBits)

\* The bit string of b * m, for a small multiplier 0 < m < 2^20.
MulSmall(b, m) ==
    LET pad == (LimbBits - (Len(b) % LimbBits)) % LimbBits
        p == Zeros(pad) \o b
        nl == Len(p) \div LimbBits
        l == SubSeq([k \in 1..nl |-> Limb(p, k)], 1, nl)
        out == SubSeq([k \in 1..nl |->
                          (l[k] * m + MulCarry(l, m, k - 1)) % Pow2(LimbBits)],
                      1, nl)
        top == MulCarry(l, m, nl)
        low == [i \in 1..Len(p) |->
                  (out[nl - ((i - 1) \div LimbBits)]
                     \div Pow2(LimbBits - 1 - ((i - 1) % LimbBits))) % 2]
    IN  IF top = 0 THEN StripLeading(low) ELSE BitsOf(top) \o low

\* A product that is the factor d itself, not multiplied by pts.
TimeBaseOnly(pts, d) == d

\* (double) pts * d, the product the build computes for an int64 pts: pts
\* converts exactly (|pts| < 2^20 here, or AV_NOPTS_VALUE = -2^63), and the
\* product is rounded once, to nearest even.
Int64TimesDouble(pts, d) ==
    IF pts = 0 \/ d.man = <<>> THEN DZero
    ELSE IF pts = AV_NOPTS_VALUE
         THEN [sign |-> 1 - d.sign, exp |-> d.exp + 63, man |-> d.man]
         ELSE LET m == IF pts < 0 THEN -pts ELSE pts
                  s == IF pts < 0 THEN 1 - d.sign ELSE d.sign
              IN  RoundBits(s, MulSmall(d.man, m), d.exp, FALSE)

\* Whether the double d is exactly the rational p / q (p >= 0, q > 0 small).
\* With the significand reduced to an odd number o, d = o * 2^e; o * 2^e =
\* p / q forces o to divide p, so a long o is never equal.
DoubleIsRational(d, p, q) ==
    IF d.man = <<>> THEN p = 0
    ELSE LET odd == StripZeros(d.man)
             e == d.exp + (Len(d.man) - Len(odd))
         IN  /\ d.sign = 0
             /\ p > 0
             /\ Len(odd) <= 12
             /\ e >= -12 /\ e <= 12
             /\ IF e >= 0 THEN ValueOf(odd, 1, Len(odd)) * Pow2(e) * q = p
                ELSE ValueOf(odd, 1, Len(odd)) * q = p * Pow2(-e)

\* Whether the doubles a and b of one sign and exponent are at most two units
\* in the last place apart.
NearDouble(a, b) ==
    \/ a = b
    \/ /\ a.man # <<>> /\ b.man # <<>>
       /\ a.sign = b.sign /\ a.exp = b.exp
       /\ \/ Incr(a.man) = b.man \/ Incr(Incr(a.man)) = b.man
          \/ Incr(b.man) = a.man \/ Incr(Incr(b.man)) = a.man

\* ------------------------------------------------------------ stages
\* Time bases the container may declare for the selected stream (num, den):
\* 30 fps, NTSC 29.97 fps, and the degenerate ones.
TimeBases == {<<1, 30>>, <<1001, 30000>>, <<0, 1>>, <<1, 0>>}
\* The sessions explored, <<time base, component count, may_fault>>: every
\* pixel format with the 1/30 time base, every time base with a
\* three-component format, and collaborators that may report unrecoverable
\* statuses with the 1/30 time base and a three-component format.
Configs ==
    {<<<<1, 30>>, nb, FALSE>> : nb \in Components \ {3}}
    \cup {<<tb, 3, FALSE>> : tb \in TimeBases \ {<<1, 30>>}}
    \cup {<<<<1, 30>>, 3, TRUE>>}

\* An unrecoverable status (negative, neither EAGAIN nor EOF), which a
\* collaborator may report at any call.
Fault == IF may_fault /\ faults < MaxFaults THEN {"ERR"} ELSE {}

\* av_read_frame: the next packet, AVERROR_EOF behind the last one.
av_read_frame_st ==
    (IF rd < Len(stream) THEN {"OK"} ELSE {"EOF"}) \cup Fault

\* avcodec_send_packet(dec_ctx, pkt): EAGAIN while the queue is full,
\* AVERROR_EOF once the decoder was put in draining mode.
avcodec_send_packet_st ==
    (IF dec_draining THEN {"EOF"}
     ELSE IF Len(dec_q) >= DecCap THEN {"EAGAIN"} ELSE {"OK"}) \cup Fault

\* avcodec_receive_frame: a queued frame when the decoder has finished it
\* (it may still be working on it and answer EAGAIN, unless it is draining);
\* AVERROR_EOF when drained.
avcodec_receive_frame_st ==
    (IF dec_q # <<>> THEN {"OK"} ELSE {})
    \cup (IF ~dec_draining THEN {"EAGAIN"} ELSE {})
    \cup (IF dec_draining /\ dec_q = <<>> THEN {"EOF"} ELSE {})
    \cup Fault

\* av_buffersrc_add_frame_flags(buffersrc_ctx, frame, KEEP_REF): refused with
\* EINVAL once end-of-input was signalled.
av_buffersrc_add_frame_st ==
    (IF flt_eof THEN {"EINVAL"} ELSE {"OK"}) \cup Fault

\* av_buffersink_get_frame: the oldest filtered frame when the graph has
\* finished it (before end-of-input it may hold frames back and answer
\* EAGAIN); AVERROR_EOF when flushed and empty.
av_buffersink_get_frame_st ==
    (IF flt_q # <<>> THEN {"OK"} ELSE {})
    \cup (IF ~flt_eof THEN {"EAGAIN"} ELSE {})
    \cup (IF flt_eof /\ flt_q = <<>> THEN {"EOF"} ELSE {})
    \cup Fault

\* The frame the decoder hands out for packet id: its pts may be unset, its
\* best_effort_timestamp is the decoder's estimate.
Decoded(id, unset) ==
    [id |-> id, pts |-> IF unset THEN AV_NOPTS_VALUE ELSE PtsOf(id),
     bet |-> PtsOf(id)]

\* frame->pts = frame->best_effort_timestamp (bindings.cpp:205, 302).
BestEffort(f) == [f EXCEPT !.pts = f.bet]

\* The picture the passthrough graph hands out for the decoded frame f.
Filtered(f) ==
    [id |-> f.id, pts |-> f.pts, w |-> DimOf(f.id)[1], h |-> DimOf(f.id)[2],
     nb |-> sink_nb]

\* ------------------------------------------------------------ observation
\* A stage operation op was invoked in the running call and answered st.
Observe(op, st) ==
    /\ ops' = ops \cup {op}
    /\ lastOp' = op
    /\ lastSt' = st
    /\ unretrieved' = IF op = "flt_retrieve" THEN 0
                      ELSE IF op = "flt_submit" THEN unretrieved + 1
                      ELSE unretrieved
    /\ fatalOps' = IF st \in {"ERR", "EINVAL"} THEN fatalOps \cup {op} ELSE fatalOps
    /\ faults' = IF st = "ERR" THEN faults + 1 ELSE faults
    /\ UNCHANGED overlapped

\* The running call of caller t ends; why names the branch that ended it.
Finish(t, why) ==
    /\ pc' = [pc EXCEPT ![t] = "idle"]
    /\ lastWhy' = why
    /\ finished' = IF finished # "no" THEN finished
                   ELSE IF why = "eos" THEN "clean"
                   ELSE IF why \in {"fatal", "stall"} THEN "broken"
                   ELSE "no"

\* ------------------------------------------------------------ the binding
\* bindings.cpp:16-39.  mat_to_numpy: the matrix is continuous (it comes from
\* clone(), bindings.cpp:157-159), so the outcome depends on its type alone:
\* anything but CV_8UC3 throws std::runtime_error.
mat_to_numpy(mat) ==
    IF mat.channels # 3 THEN "runtime_error" ELSE "ndarray"

\* The value of the last completed GetNextFrame: true after
\* process_retrieved_frame returned true, false on every other return.
GetNextFrameRet == lastWhy = "frame"

\* bindings.cpp:71-82.  The Python get_next_frame: the array of the frame
\* when the core returned true, None otherwise.
get_next_frame(t) ==
    IF GetNextFrameRet THEN mat_to_numpy(output_mat[t]) ELSE "None"

\* ------------------------------------------------------------ the pump
\* A frame size that follows every frame instead of the first one only.
EveryFrameDim(cur, new) == new

\* bindings.cpp:161-164.  frame_width_ / frame_height_ take the size of the
\* frame only while no frame was counted yet.
FirstFrameDim(cur, new) == IF frame_count_ = 0 THEN new ELSE cur

\* A counter incremented inside the first-frame block only.
CountFirstFrameOnly == IF frame_count_ = 0 THEN 1 ELSE frame_count_

\* bindings.cpp:165.  frame_count_++.
NextFrameCount == frame_count_ + 1

\* The values filt_frame->pts takes: the time stamps of the frames and
\* AV_NOPTS_VALUE.
PtsValues == {AV_NOPTS_VALUE} \cup {PtsOf(id) : id \in 1..MaxPkts}

\* bindings.cpp:169.  current_frame_pts_ * av_q2d(video_time_base_) for every
\* time base without a zero and every pts, each product worked out once.
SecondsOf ==
    [tb \in {b \in TimeBases : b[1] # 0 /\ b[2] # 0} |->
        [pts \in PtsValues |-> Int64TimesDouble(pts, av_q2d(tb))]]

\* A conversion without the test for a zero: a time base with a zero counts
\* as 1/30.
TimeSecondsUntested(pts) ==
    IF video_time_base_[1] # 0 /\ video_time_base_[2] # 0
    THEN SecondsOf[video_time_base_][pts]
    ELSE SecondsOf[<<1, 30>>][pts]

\* bindings.cpp:168-172.  current_frame_time_seconds_ for a frame of the
\* given pts: pts * av_q2d(video_time_base_), 0.0 for a time base with a zero
\* numerator or denominator.
TimeSeconds(pts) ==
    IF video_time_base_[1] # 0 /\ video_time_base_[2] # 0
    THEN SecondsOf[video_time_base_][pts]
    ELSE DZero

\* A handler that fills the caller's matrix before it tests the layout.
StoreThenTest(t, f) ==
    IF f.nb \notin {1, 3}
    THEN /\ filt_frame' = f
         /\ output_mat' = [output_mat EXCEPT ![t] =
                [id |-> f.id, rows |-> f.h, cols |-> f.w, channels |-> f.nb]]
         /\ UNCHANGED <<members, returned>>
         /\ Finish(t, "fmt")
    ELSE /\ output_mat' = [output_mat EXCEPT ![t] =
                [id |-> f.id, rows |-> f.h, cols |-> f.w, channels |-> f.nb]]
         /\ frame_width_' = FirstFrameDim(frame_width_, f.w)
         /\ frame_height_' = FirstFrameDim(frame_height_, f.h)
         /\ frame_count_' = NextFrameCount
         /\ current_frame_pts_' = f.pts
         /\ current_frame_time_seconds_' = TimeSeconds(f.pts)
         /\ filt_frame' = NoFilt
         /\ returned' = Append(returned, f.id)
         /\ UNCHANGED <<initialized, total_frames_, video_time_base_>>
         /\ Finish(t, "frame")

\* A handler that counts the frame and takes its time stamp before it tests
\* the pixel layout.
CountThenTest(t, f) ==
    IF f.nb \notin {1, 3}
    THEN /\ filt_frame' = f
         /\ frame_count_' = NextFrameCount
         /\ current_frame_pts_' = f.pts
         /\ UNCHANGED <<initialized, total_frames_, frame_width_, frame_height_,
                        video_time_base_, current_frame_time_seconds_,
                        output_mat, returned>>
         /\ Finish(t, "fmt")
    ELSE /\ output_mat' = [output_mat EXCEPT ![t] =
                [id |-> f.id, rows |-> f.h, cols |-> f.w, channels |-> f.nb]]
         /\ frame_width_' = FirstFrameDim(frame_width_, f.w)
         /\ frame_height_' = FirstFrameDim(frame_height_, f.h)
         /\ frame_count_' = NextFrameCount
         /\ current_frame_pts_' = f.pts
         /\ current_frame_time_seconds_' = TimeSeconds(f.pts)
         /\ filt_frame' = NoFilt
         /\ returned' = Append(returned, f.id)
         /\ UNCHANGED <<initialized, total_frames_, video_time_base_>>
         /\ Finish(t, "frame")

\* bindings.cpp:133-176.  f is the frame av_buffersink_get_frame put in
\* filt_frame.  An unknown or unsupported pixel layout returns false before
\* anything is stored (and before filt_frame is unreferenced).
process_retrieved_frame(t, f) ==
    IF f.nb \notin {1, 3}
    THEN /\ filt_frame' = f
         /\ UNCHANGED <<members, output_mat, returned>>
         /\ Finish(t, "fmt")
    ELSE /\ output_mat' = [output_mat EXCEPT ![t] =
                [id |-> f.id, rows |-> f.h, cols |-> f.w, channels |-> f.nb]]
         /\ frame_width_' = FirstFrameDim(frame_width_, f.w)
         /\ frame_height_' = FirstFrameDim(frame_height_, f.h)
         /\ frame_count_' = NextFrameCount
         /\ current_frame_pts_' = f.pts
         /\ current_frame_time_seconds_' = TimeSeconds(f.pts)
         /\ filt_frame' = NoFilt
         /\ returned' = Append(returned, f.id)
         /\ UNCHANGED <<initialized, total_frames_, video_time_base_>>
         /\ Finish(t, "frame")

\* A failure path that forgets the last presentation time stamp.
ReturnFalseResetting(t, why) ==
    /\ current_frame_pts_' = AV_NOPTS_VALUE
    /\ UNCHANGED <<initialized, frame_count_, total_frames_, frame_width_,
                   frame_height_, video_time_base_, current_frame_time_seconds_,
                   output_mat, returned, filt_frame>>
    /\ Finish(t, why)

\* A path that returns false: nothing of the session is stored.
ReturnFalse(t, why) ==
    /\ UNCHANGED <<members, output_mat, returned, filt_frame>>
    /\ Finish(t, why)

\* The callers whose call of GetNextFrame is in progress.
Running == {u \in callers : pc[u] # "idle"}

\* An entry that goes straight to reading a packet.
CallAtRead(t) ==
    /\ t \in callers
    /\ pc[t] = "idle"
    /\ ops' = {}
    /\ lastOp' = "none"
    /\ lastSt' = "none"
    /\ fatalOps' = {}
    /\ afterFin' = finished
    /\ overlapped' = (overlapped \/ Running # {})
    /\ end_of_input_reached' = [end_of_input_reached EXCEPT ![t] = FALSE]
    /\ IF ~initialized
       THEN /\ lastWhy' = "uninit"
            /\ UNCHANGED pc
       ELSE /\ pc' = [pc EXCEPT ![t] = "read"]
            /\ UNCHANGED lastWhy
    /\ UNCHANGED <<members, slots, callers, construction, output_mat, stages, returned,
                   lastFrame, finished, read_ids, accepted, eofMark,
                   unretrieved>>

\* An entry without the test of initialized.
CallUnguarded(t) ==
    /\ t \in callers
    /\ pc[t] = "idle"
    /\ ops' = {}
    /\ lastOp' = "none"
    /\ lastSt' = "none"
    /\ fatalOps' = {}
    /\ afterFin' = finished
    /\ overlapped' = (overlapped \/ Running # {})
    /\ end_of_input_reached' = [end_of_input_reached EXCEPT ![t] = FALSE]
    /\ pc' = [pc EXCEPT ![t] = "sink"]
    /\ UNCHANGED <<members, slots, callers, construction, output_mat, stages, returned,
                   lastFrame, lastWhy, finished, read_ids, accepted, eofMark,
                   unretrieved>>

\* bindings.cpp:178-186.  Entry of GetNextFrame.
Call(t) ==
    /\ t \in callers
    /\ pc[t] = "idle"
    /\ ops' = {}
    /\ lastOp' = "none"
    /\ lastSt' = "none"
    /\ fatalOps' = {}
    /\ afterFin' = finished
    /\ overlapped' = (overlapped \/ Running # {})
    /\ end_of_input_reached' = [end_of_input_reached EXCEPT ![t] = FALSE]
    /\ IF ~initialized
       THEN /\ lastWhy' = "uninit"
            /\ UNCHANGED pc
       ELSE /\ pc' = [pc EXCEPT ![t] = "sink"]
            /\ UNCHANGED lastWhy
    /\ UNCHANGED <<members, slots, callers, construction, output_mat, stages, returned,
                   lastFrame, finished, read_ids, accepted, eofMark,
                   unretrieved>>

\* A sink poll that returns false at once when the graph is at its end.
SinkGetFinishing(t) ==
    /\ pc[t] = "sink"
    /\ \E st \in av_buffersink_get_frame_st :
        /\ Observe("flt_retrieve", st)
        /\ CASE st = "OK" ->
                    /\ flt_q' = Tail(flt_q)
                    /\ lastFrame' = Head(flt_q)
                    /\ process_retrieved_frame(t, Filtered(Head(flt_q)))
                    /\ UNCHANGED end_of_input_reached
             [] st = "EAGAIN" ->
                    /\ pc' = [pc EXCEPT ![t] = "dec_recv"]
                    /\ UNCHANGED <<members, output_mat, returned, filt_frame, flt_q,
                                   lastFrame, end_of_input_reached, lastWhy, finished>>
             [] st = "EOF" ->
                    /\ ReturnFalse(t, "eos")
                    /\ UNCHANGED <<flt_q, lastFrame, end_of_input_reached>>
             [] OTHER ->
                    /\ ReturnFalse(t, "fatal")
                    /\ UNCHANGED <<flt_q, lastFrame, end_of_input_reached>>
    /\ UNCHANGED <<pkt, frame, callers, construction, stream, rd, dec_q, dec_draining, flt_eof,
                   sink_nb, may_fault, afterFin, read_ids, accepted, eofMark>>

\* bindings.cpp:189-200.  Phase 1: pull a filtered frame from the sink.
SinkGet(t) ==
    /\ pc[t] = "sink"
    /\ \E st \in av_buffersink_get_frame_st :
        /\ Observe("flt_retrieve", st)
        /\ CASE st = "OK" ->
                    /\ flt_q' = Tail(flt_q)
                    /\ lastFrame' = Head(flt_q)
                    /\ process_retrieved_frame(t, Filtered(Head(flt_q)))
                    /\ UNCHANGED end_of_input_reached
             [] st = "EAGAIN" ->
                    /\ pc' = [pc EXCEPT ![t] = "dec_recv"]
                    /\ UNCHANGED <<members, output_mat, returned, filt_frame, flt_q,
                                   lastFrame, end_of_input_reached, lastWhy, finished>>
             [] st = "EOF" ->
                    /\ end_of_input_reached' = [end_of_input_reached EXCEPT ![t] = TRUE]
                    /\ pc' = [pc EXCEPT ![t] = "flush_send"]
                    /\ UNCHANGED <<members, output_mat, returned, filt_frame, flt_q,
                                   lastFrame, lastWhy, finished>>
             [] OTHER ->
                    /\ ReturnFalse(t, "fatal")
                    /\ UNCHANGED <<flt_q, lastFrame, end_of_input_reached>>
    /\ UNCHANGED <<pkt, frame, callers, construction, stream, rd, dec_q, dec_draining, flt_eof,
                   sink_nb, may_fault, afterFin, read_ids, accepted, eofMark>>

\* What every step that neither returns nor touches the sink leaves alone.
Quiet == UNCHANGED <<members, output_mat, returned, filt_frame, lastFrame,
                     lastWhy, finished, callers, construction, stream, sink_nb, may_fault,
                     afterFin>>
\* What every step that returns false without a frame leaves alone.
Silent == UNCHANGED <<lastFrame, callers, construction, stream, sink_nb, may_fault, afterFin>>

\* A receive that gives up when the decoder has no frame yet.
DecRecvGivingUp(t) ==
    /\ pc[t] = "dec_recv"
    /\ \E st \in avcodec_receive_frame_st :
        /\ Observe("dec_retrieve", st)
        /\ IF st = "OK"
           THEN \E unset \in BOOLEAN :
                    /\ dec_q' = Tail(dec_q)
                    /\ frame' = BestEffort(Decoded(Head(dec_q), unset))
                    /\ pc' = [pc EXCEPT ![t] = "feed"]
                    /\ Quiet
           ELSE /\ ReturnFalse(t, IF st \in {"EAGAIN", "EOF"} THEN "eos" ELSE "fatal")
                /\ Silent
                /\ UNCHANGED <<dec_q, frame>>
    /\ UNCHANGED <<pkt, end_of_input_reached, rd, dec_draining, flt_q, flt_eof,
                   read_ids, accepted, eofMark>>

\* A receive that goes on to read a packet when the decoder is drained.
DecRecvReadingOn(t) ==
    /\ pc[t] = "dec_recv"
    /\ \E st \in avcodec_receive_frame_st :
        /\ Observe("dec_retrieve", st)
        /\ CASE st = "OK" ->
                  \E unset \in BOOLEAN :
                    /\ dec_q' = Tail(dec_q)
                    /\ frame' = BestEffort(Decoded(Head(dec_q), unset))
                    /\ pc' = [pc EXCEPT ![t] = "feed"]
                    /\ Quiet
                    /\ UNCHANGED end_of_input_reached
             [] st \in {"EAGAIN", "EOF"} ->
                    /\ pc' = [pc EXCEPT ![t] = "read"]
                    /\ Quiet
                    /\ UNCHANGED <<dec_q, frame, end_of_input_reached>>
             [] OTHER ->
                    /\ ReturnFalse(t, "fatal")
                    /\ Silent
                    /\ UNCHANGED <<dec_q, frame, end_of_input_reached>>
    /\ UNCHANGED <<pkt, rd, dec_draining, flt_q, flt_eof, read_ids, accepted, eofMark>>

\* bindings.cpp:203-205, 215-223.  Phase 2: receive a decoded frame; a frame
\* gets its pts from best_effort_timestamp.
DecRecv(t) ==
    /\ pc[t] = "dec_recv"
    /\ \E st \in avcodec_receive_frame_st :
        /\ Observe("dec_retrieve", st)
        /\ CASE st = "OK" ->
                  \E unset \in BOOLEAN :
                    /\ dec_q' = Tail(dec_q)
                    /\ frame' = BestEffort(Decoded(Head(dec_q), unset))
                    /\ pc' = [pc EXCEPT ![t] = "feed"]
                    /\ Quiet
                    /\ UNCHANGED end_of_input_reached
             [] st = "EAGAIN" ->
                    /\ pc' = [pc EXCEPT ![t] = "read"]
                    /\ Quiet
                    /\ UNCHANGED <<dec_q, frame, end_of_input_reached>>
             [] st = "EOF" ->
                    /\ end_of_input_reached' = [end_of_input_reached EXCEPT ![t] = TRUE]
                    /\ pc' = [pc EXCEPT ![t] = "flush_send"]
                    /\ Quiet
                    /\ UNCHANGED <<dec_q, frame>>
             [] OTHER ->
                    /\ ReturnFalse(t, "fatal")
                    /\ Silent
                    /\ UNCHANGED <<dec_q, frame, end_of_input_reached>>
    /\ UNCHANGED <<pkt, rd, dec_draining, flt_q, flt_eof, read_ids, accepted, eofMark>>

\* A feed that does not look at the status of av_buffersrc_add_frame_flags.
FeedIgnoringStatus(t) ==
    /\ pc[t] = "feed"
    /\ \E st \in av_buffersrc_add_frame_st :
        /\ Observe("flt_submit", st)
        /\ frame' = NoFrame
        /\ flt_q' = IF st = "OK"
                    THEN Append(flt_q, [id |-> frame.id, pts |-> frame.pts])
                    ELSE flt_q
        /\ pc' = [pc EXCEPT ![t] = "sink"]
        /\ Quiet
    /\ UNCHANGED <<pkt, end_of_input_reached, rd, dec_q, dec_draining, flt_eof,
                   read_ids, accepted, eofMark>>

\* A feed that goes back to the decoder for the next frame.
FeedThenRecv(t) ==
    /\ pc[t] = "feed"
    /\ \E st \in av_buffersrc_add_frame_st :
        /\ Observe("flt_submit", st)
        /\ frame' = NoFrame
        /\ IF st = "OK"
           THEN /\ flt_q' = Append(flt_q, [id |-> frame.id, pts |-> frame.pts])
                /\ pc' = [pc EXCEPT ![t] = "dec_recv"]
                /\ Quiet
           ELSE /\ ReturnFalse(t, "fatal")
                /\ Silent
                /\ UNCHANGED flt_q
    /\ UNCHANGED <<pkt, end_of_input_reached, rd, dec_q, dec_draining, flt_eof,
                   read_ids, accepted, eofMark>>

\* A feed that goes on to read the next packet.
FeedThenRead(t) ==
    /\ pc[t] = "feed"
    /\ \E st \in av_buffersrc_add_frame_st :
        /\ Observe("flt_submit", st)
        /\ frame' = NoFrame
        /\ IF st = "OK"
           THEN /\ flt_q' = Append(flt_q, [id |-> frame.id, pts |-> frame.pts])
                /\ pc' = [pc EXCEPT ![t] = "read"]
                /\ Quiet
           ELSE /\ ReturnFalse(t, "fatal")
                /\ Silent
                /\ UNCHANGED flt_q
    /\ UNCHANGED <<pkt, end_of_input_reached, rd, dec_q, dec_draining, flt_eof,
                   read_ids, accepted, eofMark>>

\* A feed that leaves the decoded frame in the pump's slot.
FeedKeepingFrame(t) ==
    /\ pc[t] = "feed"
    /\ \E st \in av_buffersrc_add_frame_st :
        /\ Observe("flt_submit", st)
        /\ UNCHANGED frame
        /\ IF st = "OK"
           THEN /\ flt_q' = Append(flt_q, [id |-> frame.id, pts |-> frame.pts])
                /\ pc' = [pc EXCEPT ![t] = "sink"]
                /\ Quiet
           ELSE /\ ReturnFalse(t, "fatal")
                /\ Silent
                /\ UNCHANGED flt_q
    /\ UNCHANGED <<pkt, end_of_input_reached, rd, dec_q, dec_draining, flt_eof,
                   read_ids, accepted, eofMark>>

\* bindings.cpp:207-214.  Feed the decoded frame to the filter graph, drop the
\* pump's reference, and go back to the sink before reading any packet.
Feed(t) ==
    /\ pc[t] = "feed"
    /\ \E st \in av_buffersrc_add_frame_st :
        /\ Observe("flt_submit", st)
        /\ frame' = NoFrame
        /\ IF st = "OK"
           THEN /\ flt_q' = Append(flt_q, [id |-> frame.id, pts |-> frame.pts])
                /\ pc' = [pc EXCEPT ![t] = "sink"]
                /\ Quiet
           ELSE /\ ReturnFalse(t, "fatal")
                /\ Silent
                /\ UNCHANGED flt_q
    /\ UNCHANGED <<pkt, end_of_input_reached, rd, dec_q, dec_draining, flt_eof,
                   read_ids, accepted, eofMark>>

\* A test that takes the packets of every stream.
AnyStream(idx) == idx \in StreamIdxs

\* bindings.cpp:236.  pkt->stream_index == video_stream_idx.
IsSelected(idx) == idx = video_stream_idx

\* A read that starts the loop over when the file is at its end.
ReadFrameRetrying(t) ==
    /\ pc[t] = "read"
    /\ \E st \in av_read_frame_st :
        /\ Observe("src_next", st)
        /\ CASE st = "OK" ->
                    /\ rd' = rd + 1
                    /\ IF IsSelected(stream[rd + 1])
                       THEN /\ pkt' = [stream_index |-> stream[rd + 1], id |-> rd + 1]
                            /\ read_ids' = Append(read_ids, rd + 1)
                            /\ pc' = [pc EXCEPT ![t] = "send"]
                       ELSE /\ pkt' = NoPkt
                            /\ UNCHANGED read_ids
                            /\ pc' = [pc EXCEPT ![t] = "sink"]
                    /\ Quiet
                    /\ UNCHANGED <<end_of_input_reached, eofMark>>
             [] st = "EOF" ->
                    /\ eofMark' = IF eofMark.set THEN eofMark
                                  ELSE [set |-> TRUE, d |-> Len(dec_q),
                                        t |-> Len(flt_q), base |-> Len(returned)]
                    /\ pc' = [pc EXCEPT ![t] = IF eofMark.set THEN "flush_send"
                                               ELSE "sink"]
                    /\ end_of_input_reached' =
                            [end_of_input_reached EXCEPT ![t] = eofMark.set]
                    /\ Quiet
                    /\ UNCHANGED <<rd, pkt, read_ids>>
             [] OTHER ->
                    /\ ReturnFalse(t, "fatal")
                    /\ Silent
                    /\ UNCHANGED <<rd, pkt, read_ids, end_of_input_reached, eofMark>>
    /\ UNCHANGED <<frame, dec_q, dec_draining, flt_q, flt_eof, accepted>>

\* bindings.cpp:225-236, 285.  Phase 3: read a packet; a packet of another
\* stream is unreferenced and the loop starts over.
ReadFrame(t) ==
    /\ pc[t] = "read"
    /\ \E st \in av_read_frame_st :
        /\ Observe("src_next", st)
        /\ CASE st = "OK" ->
                    /\ rd' = rd + 1
                    /\ IF IsSelected(stream[rd + 1])
                       THEN /\ pkt' = [stream_index |-> stream[rd + 1], id |-> rd + 1]
                            /\ read_ids' = Append(read_ids, rd + 1)
                            /\ pc' = [pc EXCEPT ![t] = "send"]
                       ELSE /\ pkt' = NoPkt
                            /\ UNCHANGED read_ids
                            /\ pc' = [pc EXCEPT ![t] = "sink"]
                    /\ Quiet
                    /\ UNCHANGED <<end_of_input_reached, eofMark>>
             [] st = "EOF" ->
                    /\ end_of_input_reached' = [end_of_input_reached EXCEPT ![t] = TRUE]
                    /\ eofMark' = IF eofMark.set THEN eofMark
                                  ELSE [set |-> TRUE, d |-> Len(dec_q),
                                        t |-> Len(flt_q), base |-> Len(returned)]
                    /\ pc' = [pc EXCEPT ![t] = "flush_send"]
                    /\ Quiet
                    /\ UNCHANGED <<rd, pkt, read_ids>>
             [] OTHER ->
                    /\ ReturnFalse(t, "fatal")
                    /\ Silent
                    /\ UNCHANGED <<rd, pkt, read_ids, end_of_input_reached, eofMark>>
    /\ UNCHANGED <<frame, dec_q, dec_draining, flt_q, flt_eof, accepted>>

\* A send that keeps the packet when the decoder reports an error.
SendPacketKeeping(t) ==
    /\ pc[t] = "send"
    /\ \E st \in avcodec_send_packet_st :
        /\ Observe("dec_submit", st)
        /\ CASE st = "OK" ->
                    /\ dec_q' = Append(dec_q, pkt.id)
                    /\ accepted' = Append(accepted, pkt.id)
                    /\ pkt' = NoPkt
                    /\ pc' = [pc EXCEPT ![t] = "sink"]
                    /\ Quiet
             [] st = "EAGAIN" ->
                    /\ pc' = [pc EXCEPT ![t] = "drain_recv"]
                    /\ Quiet
                    /\ UNCHANGED <<dec_q, accepted, pkt>>
             [] OTHER ->
                    /\ ReturnFalse(t, "fatal")
                    /\ Silent
                    /\ UNCHANGED <<dec_q, accepted, pkt>>
    /\ UNCHANGED <<frame, end_of_input_reached, rd, dec_draining, flt_q, flt_eof,
                   read_ids, eofMark>>

\* A send that tries again at once when the decoder is busy.
SendPacketSpinning(t) ==
    /\ pc[t] = "send"
    /\ \E st \in avcodec_send_packet_st :
        /\ Observe("dec_submit", st)
        /\ CASE st = "OK" ->
                    /\ dec_q' = Append(dec_q, pkt.id)
                    /\ accepted' = Append(accepted, pkt.id)
                    /\ pkt' = NoPkt
                    /\ pc' = [pc EXCEPT ![t] = "sink"]
                    /\ Quiet
             [] st = "EAGAIN" ->
                    /\ Quiet
                    /\ UNCHANGED <<pc, dec_q, accepted, pkt>>
             [] OTHER ->
                    /\ pkt' = NoPkt
                    /\ ReturnFalse(t, "fatal")
                    /\ Silent
                    /\ UNCHANGED <<dec_q, accepted>>
    /\ UNCHANGED <<frame, end_of_input_reached, rd, dec_draining, flt_q, flt_eof,
                   read_ids, eofMark>>

\* bindings.cpp:238-239, 278-285.  Send the packet; EAGAIN enters the retry
\* loop, any other negative status ends the call.  The packet is unreferenced
\* on both ways out.
SendPacket(t) ==
    /\ pc[t] = "send"
    /\ \E st \in avcodec_send_packet_st :
        /\ Observe("dec_submit", st)
        /\ CASE st = "OK" ->
                    /\ dec_q' = Append(dec_q, pkt.id)
                    /\ accepted' = Append(accepted, pkt.id)
                    /\ pkt' = NoPkt
                    /\ pc' = [pc EXCEPT ![t] = "sink"]
                    /\ Quiet
             [] st = "EAGAIN" ->
                    /\ pc' = [pc EXCEPT ![t] = "drain_recv"]
                    /\ Quiet
                    /\ UNCHANGED <<dec_q, accepted, pkt>>
             [] OTHER ->
                    /\ pkt' = NoPkt
                    /\ ReturnFalse(t, "fatal")
                    /\ Silent
                    /\ UNCHANGED <<dec_q, accepted>>
    /\ UNCHANGED <<frame, end_of_input_reached, rd, dec_draining, flt_q, flt_eof,
                   read_ids, eofMark>>

\* A retry loop that sends the packet again when the decoder has no frame.
DrainRecvRetrying(t) ==
    /\ pc[t] = "drain_recv"
    /\ \E st \in avcodec_receive_frame_st :
        /\ Observe("dec_retrieve", st)
        /\ CASE st = "OK" ->
                  \E unset \in BOOLEAN :
                    /\ dec_q' = Tail(dec_q)
                    /\ frame' = Decoded(Head(dec_q), unset)
                    /\ pc' = [pc EXCEPT ![t] = "drain_feed"]
                    /\ Quiet
                    /\ UNCHANGED pkt
             [] st \in {"EAGAIN", "EOF"} ->
                    /\ pc' = [pc EXCEPT ![t] = "send"]
                    /\ Quiet
                    /\ UNCHANGED <<dec_q, frame, pkt>>
             [] OTHER ->
                    /\ pkt' = NoPkt
                    /\ ReturnFalse(t, "fatal")
                    /\ Silent
                    /\ UNCHANGED <<dec_q, frame>>
    /\ UNCHANGED <<end_of_input_reached, rd, dec_draining, flt_q, flt_eof,
                   read_ids, accepted, eofMark>>

\* bindings.cpp:240-241, 264-283.  Retry loop: drain one decoded frame.  When
\* the decoder has none (EAGAIN or EOF) the loop is left with the send status
\* still EAGAIN, which is negative: the packet is unreferenced and the call
\* returns false.  The drained frame keeps the pts the decoder gave it.
DrainRecv(t) ==
    /\ pc[t] = "drain_recv"
    /\ \E st \in avcodec_receive_frame_st :
        /\ Observe("dec_retrieve", st)
        /\ CASE st = "OK" ->
                  \E unset \in BOOLEAN :
                    /\ dec_q' = Tail(dec_q)
                    /\ frame' = Decoded(Head(dec_q), unset)
                    /\ pc' = [pc EXCEPT ![t] = "drain_feed"]
                    /\ Quiet
                    /\ UNCHANGED pkt
             [] st \in {"EAGAIN", "EOF"} ->
                    /\ pkt' = NoPkt
                    /\ ReturnFalse(t, "stall")
                    /\ Silent
                    /\ UNCHANGED <<dec_q, frame>>
             [] OTHER ->
                    /\ pkt' = NoPkt
                    /\ ReturnFalse(t, "fatal")
                    /\ Silent
                    /\ UNCHANGED <<dec_q, frame>>
    /\ UNCHANGED <<end_of_input_reached, rd, dec_draining, flt_q, flt_eof,
                   read_ids, accepted, eofMark>>


\* A busy-drain feed that does not look at the status of
\* av_buffersrc_add_frame_flags.
DrainFeedIgnoringStatus(t) ==
    /\ pc[t] = "drain_feed"
    /\ \E st \in av_buffersrc_add_frame_st :
        /\ Observe("flt_submit", st)
        /\ frame' = NoFrame
        /\ flt_q' = IF st = "OK"
                    THEN Append(flt_q, [id |-> frame.id, pts |-> frame.pts])
                    ELSE flt_q
        /\ pc' = [pc EXCEPT ![t] = "drain_sink"]
        /\ Quiet
        /\ UNCHANGED pkt
    /\ UNCHANGED <<end_of_input_reached, rd, dec_q, dec_draining, flt_eof,
                   read_ids, accepted, eofMark>>

\* bindings.cpp:242-250.  Retry loop: feed the drained frame to the graph.
DrainFeed(t) ==
    /\ pc[t] = "drain_feed"
    /\ \E st \in av_buffersrc_add_frame_st :
        /\ Observe("flt_submit", st)
        /\ frame' = NoFrame
        /\ IF st = "OK"
           THEN /\ flt_q' = Append(flt_q, [id |-> frame.id, pts |-> frame.pts])
                /\ pc' = [pc EXCEPT ![t] = "drain_sink"]
                /\ Quiet
                /\ UNCHANGED pkt
           ELSE /\ pkt' = NoPkt
                /\ ReturnFalse(t, "fatal")
                /\ Silent
                /\ UNCHANGED flt_q
    /\ UNCHANGED <<end_of_input_reached, rd, dec_q, dec_draining, flt_eof,
                   read_ids, accepted, eofMark>>

\* A retry loop that pulls the filtered frame and goes on with the send.
DrainSinkDiscard(t) ==
    /\ pc[t] = "drain_sink"
    /\ \E st \in av_buffersink_get_frame_st :
        /\ Observe("flt_retrieve", st)
        /\ IF st \in {"OK", "EAGAIN", "EOF"}
           THEN /\ flt_q' = IF st = "OK" THEN Tail(flt_q) ELSE flt_q
                /\ lastFrame' = IF st = "OK" THEN Head(flt_q) ELSE lastFrame
                /\ pc' = [pc EXCEPT ![t] = "send"]
                /\ UNCHANGED <<members, output_mat, returned, filt_frame,
                               lastWhy, finished, pkt>>
           ELSE /\ pkt' = NoPkt
                /\ ReturnFalse(t, "fatal")
                /\ UNCHANGED <<flt_q, lastFrame>>
    /\ UNCHANGED <<frame, callers, construction, end_of_input_reached, stream, rd, dec_q,
                   dec_draining, flt_eof, sink_nb, may_fault, afterFin, read_ids,
                   accepted, eofMark>>

\* bindings.cpp:252-263.  Retry loop: look for a filtered frame at once.  A
\* frame unreferences the packet and returns; EAGAIN and EOF retry the send.
DrainSink(t) ==
    /\ pc[t] = "drain_sink"
    /\ \E st \in av_buffersink_get_frame_st :
        /\ Observe("flt_retrieve", st)
        /\ CASE st = "OK" ->
                    /\ flt_q' = Tail(flt_q)
                    /\ lastFrame' = Head(flt_q)
                    /\ pkt' = NoPkt
                    /\ process_retrieved_frame(t, Filtered(Head(flt_q)))
             [] st \in {"EAGAIN", "EOF"} ->
                    /\ pc' = [pc EXCEPT ![t] = "send"]
                    /\ UNCHANGED <<members, output_mat, returned, filt_frame, flt_q,
                                   lastFrame, lastWhy, finished, pkt>>
             [] OTHER ->
                    /\ pkt' = NoPkt
                    /\ ReturnFalse(t, "fatal")
                    /\ UNCHANGED <<flt_q, lastFrame>>
    /\ UNCHANGED <<frame, callers, construction, end_of_input_reached, stream, rd, dec_q,
                   dec_draining, flt_eof, sink_nb, may_fault, afterFin, read_ids,
                   accepted, eofMark>>

\* avcodec_send_packet(dec_ctx, nullptr): puts the decoder in draining mode;
\* AVERROR_EOF when it already is.
avcodec_send_packet_null_st ==
    (IF dec_draining THEN {"EOF"} ELSE {"OK"}) \cup Fault

\* av_buffersrc_add_frame_flags(buffersrc_ctx, nullptr, 0): signals
\* end-of-input to the graph; repeating it is accepted.
av_buffersrc_close_st == {"OK"} \cup Fault

\* A flush that does not tell the decoder that no packet follows.
FlushSendSkipping(t) ==
    /\ pc[t] = "flush_send"
    /\ IF end_of_input_reached[t]
       THEN /\ pc' = [pc EXCEPT ![t] = "flush_recv"]
            /\ Quiet
            /\ UNCHANGED <<ops, fatalOps, lastOp, lastSt, unretrieved, faults,
                           dec_draining, overlapped>>
       ELSE /\ ReturnFalse(t, "eos")
            /\ Silent
            /\ UNCHANGED <<ops, fatalOps, lastOp, lastSt, unretrieved, faults,
                           dec_draining, overlapped>>
    /\ UNCHANGED <<pkt, frame, end_of_input_reached, rd, dec_q, flt_q, flt_eof,
                   read_ids, accepted, eofMark>>

\* bindings.cpp:290-293.  Final flushing logic: the decoder is told that no
\* packet follows; the status of that call is not looked at.
FlushSend(t) ==
    /\ pc[t] = "flush_send"
    /\ IF end_of_input_reached[t]
       THEN \E st \in avcodec_send_packet_null_st :
              /\ Observe("dec_flush", st)
              /\ dec_draining' = (dec_draining \/ st = "OK")
              /\ pc' = [pc EXCEPT ![t] = "flush_recv"]
              /\ Quiet
       ELSE /\ ReturnFalse(t, "eos")
            /\ Silent
            /\ UNCHANGED <<ops, fatalOps, lastOp, lastSt, unretrieved, faults,
                           dec_draining, overlapped>>
    /\ UNCHANGED <<pkt, frame, end_of_input_reached, rd, dec_q, flt_q, flt_eof,
                   read_ids, accepted, eofMark>>

\* bindings.cpp:294-302.  Drain the decoder: EAGAIN and EOF both end the
\* loop; a frame gets its pts from best_effort_timestamp.
FlushRecv(t) ==
    /\ pc[t] = "flush_recv"
    /\ \E st \in avcodec_receive_frame_st :
        /\ Observe("dec_retrieve", st)
        /\ CASE st = "OK" ->
                  \E unset \in BOOLEAN :
                    /\ dec_q' = Tail(dec_q)
                    /\ frame' = BestEffort(Decoded(Head(dec_q), unset))
                    /\ pc' = [pc EXCEPT ![t] = "flush_feed"]
                    /\ Quiet
             [] st \in {"EAGAIN", "EOF"} ->
                    /\ pc' = [pc EXCEPT ![t] = "flush_src"]
                    /\ Quiet
                    /\ UNCHANGED <<dec_q, frame>>
             [] OTHER ->
                    /\ ReturnFalse(t, "fatal")
                    /\ Silent
                    /\ UNCHANGED <<dec_q, frame>>
    /\ UNCHANGED <<pkt, end_of_input_reached, rd, dec_draining, flt_q, flt_eof,
                   read_ids, accepted, eofMark>>

\* A flush that unreferences the drained frame without feeding it.
FlushFeedDrop(t) ==
    /\ pc[t] = "flush_feed"
    /\ frame' = NoFrame
    /\ pc' = [pc EXCEPT ![t] = "flush_recv"]
    /\ Quiet
    /\ UNCHANGED <<pkt, end_of_input_reached, rd, dec_q, dec_draining, flt_q,
                   flt_eof, read_ids, accepted, eofMark, ops, fatalOps, lastOp,
                   lastSt, unretrieved, faults, overlapped>>

\* A flush that stops draining the decoder after the first frame.
FlushFeedOnce(t) ==
    /\ pc[t] = "flush_feed"
    /\ \E st \in av_buffersrc_add_frame_st :
        /\ Observe("flt_submit", st)
        /\ frame' = NoFrame
        /\ IF st = "OK"
           THEN /\ flt_q' = Append(flt_q, [id |-> frame.id, pts |-> frame.pts])
                /\ pc' = [pc EXCEPT ![t] = "flush_src"]
                /\ Quiet
           ELSE /\ ReturnFalse(t, "fatal")
                /\ Silent
                /\ UNCHANGED flt_q
    /\ UNCHANGED <<pkt, end_of_input_reached, rd, dec_q, dec_draining, flt_eof,
                   read_ids, accepted, eofMark>>

\* A flush that feeds the drained frame ahead of the frames already queued.
FlushFeedInFront(t) ==
    /\ pc[t] = "flush_feed"
    /\ \E st \in av_buffersrc_add_frame_st :
        /\ Observe("flt_submit", st)
        /\ frame' = NoFrame
        /\ IF st = "OK"
           THEN /\ flt_q' = <<[id |-> frame.id, pts |-> frame.pts]>> \o flt_q
                /\ pc' = [pc EXCEPT ![t] = "flush_recv"]
                /\ Quiet
           ELSE /\ ReturnFalse(t, "fatal")
                /\ Silent
                /\ UNCHANGED flt_q
    /\ UNCHANGED <<pkt, end_of_input_reached, rd, dec_q, dec_draining, flt_eof,
                   read_ids, accepted, eofMark>>

\* bindings.cpp:303-311.  Feed the flushed frame to the graph and receive
\* the next one.
FlushFeed(t) ==
    /\ pc[t] = "flush_feed"
    /\ \E st \in av_buffersrc_add_frame_st :
        /\ Observe("flt_submit", st)
        /\ frame' = NoFrame
        /\ IF st = "OK"
           THEN /\ flt_q' = Append(flt_q, [id |-> frame.id, pts |-> frame.pts])
                /\ pc' = [pc EXCEPT ![t] = "flush_recv"]
                /\ Quiet
           ELSE /\ ReturnFalse(t, "fatal")
                /\ Silent
                /\ UNCHANGED flt_q
    /\ UNCHANGED <<pkt, end_of_input_reached, rd, dec_q, dec_draining, flt_eof,
                   read_ids, accepted, eofMark>>

\* bindings.cpp:313-318.  Signal end-of-input to the filter graph.
FlushSrc(t) ==
    /\ pc[t] = "flush_src"
    /\ \E st \in av_buffersrc_close_st :
        /\ Observe("flt_flush", st)
        /\ IF st = "OK"
           THEN /\ flt_eof' = TRUE
                /\ pc' = [pc EXCEPT ![t] = "flush_sink"]
                /\ Quiet
           ELSE /\ ReturnFalse(t, "fatal")
                /\ Silent
                /\ UNCHANGED flt_eof
    /\ UNCHANGED <<pkt, frame, end_of_input_reached, rd, dec_q, dec_draining,
                   flt_q, read_ids, accepted, eofMark>>

\* bindings.cpp:320-332.  Pull one flushed frame from the sink; EAGAIN and
\* EOF end the call with false.
FlushSink(t) ==
    /\ pc[t] = "flush_sink"
    /\ \E st \in av_buffersink_get_frame_st :
        /\ Observe("flt_retrieve", st)
        /\ CASE st = "OK" ->
                    /\ flt_q' = Tail(flt_q)
                    /\ lastFrame' = Head(flt_q)
                    /\ process_retrieved_frame(t, Filtered(Head(flt_q)))
             [] st \in {"EAGAIN", "EOF"} ->
                    /\ ReturnFalse(t, "eos")
                    /\ UNCHANGED <<flt_q, lastFrame>>
             [] OTHER ->
                    /\ ReturnFalse(t, "fatal")
                    /\ UNCHANGED <<flt_q, lastFrame>>
    /\ UNCHANGED <<pkt, frame, callers, construction, end_of_input_reached, stream, rd, dec_q,
                   dec_draining, flt_eof, sink_nb, may_fault, afterFin, read_ids,
                   accepted, eofMark>>

\* ------------------------------------------------------------ specification
\* bindings.cpp:105-126.  The session after construction: init() succeeded
\* (output size taken from the sink's input link, time base from the stream)
\* or failed; nothing was read, decoded or filtered yet.
\* ------------------------------------------------------------ construction
\* The members and the pump as the constructor's initializer list leaves them
\* (bindings.cpp:107-114), which is how they stand while init() runs and in a
\* session whose init() failed at its first step: initialized is false and
\* no stage exists.
PumpAtRest ==
    /\ initialized = FALSE
    /\ frame_count_ = 0 /\ total_frames_ = 0
    /\ frame_width_ = 0 /\ frame_height_ = 0
    /\ video_time_base_ = <<0, 1>>
    /\ current_frame_pts_ = AV_NOPTS_VALUE
    /\ current_frame_time_seconds_ = DZero
    /\ pkt = NoPkt /\ frame = NoFrame /\ filt_frame = NoFilt
    /\ callers = {1}
    /\ pc = [t \in Threads |-> "idle"]
    /\ end_of_input_reached = [t \in Threads |-> FALSE]
    /\ output_mat = [t \in Threads |-> NoMat]
    /\ stream = <<>> /\ rd = 0
    /\ dec_q = <<>> /\ dec_draining = FALSE
    /\ flt_q = <<>> /\ flt_eof = FALSE
    /\ sink_nb = 0 /\ may_fault = FALSE /\ faults = 0
    /\ returned = <<>> /\ lastFrame = [id |-> 0, pts |-> AV_NOPTS_VALUE]
    /\ lastWhy = "init"
    /\ ops = {} /\ fatalOps = {} /\ lastOp = "none" /\ lastSt = "none"
    /\ unretrieved = 0
    /\ finished = "no" /\ afterFin = "no"
    /\ read_ids = <<>> /\ accepted = <<>>
    /\ eofMark = [set |-> FALSE, d |-> 0, t |-> 0, base |-> 0]
    /\ overlapped = FALSE

\* The pump's variables, which construction does not touch.
pump == <<slots, locals, stages, history>>

\* ------------------------------------------------------------ storage
\* Addresses the allocator hands out for the data of a matrix.
MaxAddrs == 3
Addrs == 1..MaxAddrs
\* A matrix header or an array without data.
NoData == [data |-> 0, id |-> 0]

\* No matrix was filled yet.
NoStorage ==
    /\ heap = [a \in Addrs |-> [live |-> FALSE, id |-> 0]]
    /\ caller_mat = NoData
    /\ py_array = NoData

\* bindings.cpp:157-159.  cv::Mat(...).clone(): a buffer of its own at a free
\* address a, filled with the picture of frame k.
Clone(a, k) == [heap EXCEPT ![a] = [live |-> TRUE, id |-> k]]

\* The last cv::Mat header of the buffer at address a goes away: the buffer
\* is returned to the allocator (what it held stays until the address is
\* handed out again).
ReleaseData(h, a) == IF a = 0 THEN h ELSE [h EXCEPT ![a].live = FALSE]

\* bindings.cpp:157-159, 178-333.  A C++ caller's GetNextFrame(output_mat)
\* returns true with frame k: the clone is made first, then assigned to the
\* caller's matrix, which lets go of the buffer it had.
GetNextFrameInto ==
    /\ \E k \in 1..MaxPkts, a \in Addrs :
        /\ ~heap[a].live
        /\ heap' = ReleaseData(Clone(a, k), caller_mat.data)
        /\ caller_mat' = [data |-> a, id |-> k]
    /\ UNCHANGED <<members, pump, negotiation, metadata, sample_total,
                   resources, py_array>>

\* bindings.cpp:36-38.  py::array_t<uint8_t>(shape, strides, mat.data,
\* py::none()): with a base object given, the array refers to the pointer it
\* is handed and owns no data; nothing is copied.
ArrayOf(h, a) == [data |-> a, id |-> h[a].id]

\* bindings.cpp:71-82.  The Python get_next_frame when GetNextFrame returned
\* true with frame k of nb components: frame_mat is a local of the lambda,
\* mat_to_numpy makes the array (or throws), and frame_mat is destroyed when
\* the lambda returns.
PyGetNextFrame ==
    /\ \E k \in 1..MaxPkts, nb \in {1, 3}, a \in Addrs :
        /\ ~heap[a].live
        /\ LET frame_mat == [id |-> k, rows |-> SinkDim[2], cols |-> SinkDim[1],
                             channels |-> nb]
               filled == Clone(a, k)
           IN  /\ py_array' = IF mat_to_numpy(frame_mat) = "ndarray"
                              THEN ArrayOf(filled, a) ELSE py_array
               /\ heap' = ReleaseData(filled, a)
    /\ UNCHANGED <<members, pump, negotiation, metadata, sample_total,
                   resources, caller_mat>>

\* The Python caller drops the array it holds; the array owns no data, so
\* nothing goes back to the allocator.
PyDropArray ==
    /\ py_array # NoData
    /\ py_array' = NoData
    /\ UNCHANGED <<members, pump, negotiation, metadata, sample_total,
                   resources, heap, caller_mat>>

\* ------------------------------------------------------------ resources
\* The native references the object acquires: its own pointers
\* (part_000:52-61), the references it stores in the decoder context and in
\* the buffer source parameters, the reference the buffer source takes for
\* itself, and the temporaries of init().
Refs ==
    {"pkt", "frame", "filt_frame", "fmt_ctx", "hw_device_ctx", "dec_ctx",
     "dec_ctx->hw_device_ctx", "hw_frames_ctx", "dec_ctx->hw_frames_ctx",
     "filter_graph", "buffersrc_params", "buffersrc_params->hw_frames_ctx",
     "buffersrc_ctx->hw_frames_ctx", "outputs", "inputs"}

\* The steps of init() that can fail, in order (bindings.cpp:382-635).  acq:
\* what the step acquires when it succeeds; rel: what is released when it
\* succeeded (by init() or by the library that consumed it); fail: what
\* init() releases before it returns false when the step failed.
\* av_buffersrc_parameters_set leaves every field of the parameters to the
\* caller and takes a reference of its own; av_free releases the parameters
\* structure alone.
InitSteps ==
    << [call |-> "avformat_open_input", acq |-> {"fmt_ctx"}, rel |-> {}, fail |-> {}],
       [call |-> "avformat_find_stream_info", acq |-> {}, rel |-> {}, fail |-> {}],
       [call |-> "av_find_best_stream", acq |-> {}, rel |-> {}, fail |-> {}],
       [call |-> "av_hwdevice_find_type_by_name", acq |-> {}, rel |-> {}, fail |-> {}],
       [call |-> "av_hwdevice_ctx_create", acq |-> {"hw_device_ctx"}, rel |-> {}, fail |-> {}],
       [call |-> "avcodec_find_decoder_by_name", acq |-> {}, rel |-> {}, fail |-> {}],
       [call |-> "avcodec_alloc_context3", acq |-> {"dec_ctx"}, rel |-> {}, fail |-> {}],
       [call |-> "avcodec_parameters_to_context", acq |-> {}, rel |-> {}, fail |-> {}],
       [call |-> "av_buffer_ref(hw_device_ctx)", acq |-> {"dec_ctx->hw_device_ctx"},
        rel |-> {}, fail |-> {}],
       [call |-> "avcodec_open2", acq |-> {}, rel |-> {}, fail |-> {}],
       [call |-> "av_hwframe_ctx_alloc", acq |-> {"hw_frames_ctx"}, rel |-> {}, fail |-> {}],
       [call |-> "av_hwframe_ctx_init", acq |-> {}, rel |-> {}, fail |-> {}],
       [call |-> "av_buffer_ref(hw_frames_ctx)", acq |-> {"dec_ctx->hw_frames_ctx"},
        rel |-> {}, fail |-> {}],
       [call |-> "avfilter_graph_alloc", acq |-> {"filter_graph"}, rel |-> {}, fail |-> {}],
       [call |-> "avfilter_graph_create_filter(in)", acq |-> {}, rel |-> {}, fail |-> {}],
       [call |-> "av_buffersrc_parameters_alloc", acq |-> {"buffersrc_params"},
        rel |-> {}, fail |-> {}],
       [call |-> "av_buffer_ref(hw_frames_ctx)", acq |-> {"buffersrc_params->hw_frames_ctx"},
        rel |-> {}, fail |-> {"buffersrc_params"}],
       [call |-> "av_buffersrc_parameters_set", acq |-> {"buffersrc_ctx->hw_frames_ctx"},
        rel |-> {"buffersrc_params"}, fail |-> {"buffersrc_params"}],
       [call |-> "avfilter_graph_create_filter(out)", acq |-> {}, rel |-> {}, fail |-> {}],
       [call |-> "av_opt_set_int_list", acq |-> {}, rel |-> {}, fail |-> {}],
       [call |-> "avfilter_inout_alloc", acq |-> {"outputs", "inputs"}, rel |-> {},
        fail |-> {"outputs", "inputs"}],
       [call |-> "avfilter_graph_parse_ptr", acq |-> {}, rel |-> {"outputs", "inputs"},
        fail |-> {"outputs", "inputs"}],
       [call |-> "avfilter_graph_config", acq |-> {}, rel |-> {}, fail |-> {}] >>

\* bindings.cpp:637-648.  cleanup(), call by call: what each call releases
\* when its pointer is set (every one of them accepts a null pointer and
\* resets the pointer it is given).
CleanupSteps ==
    << {"filter_graph", "buffersrc_ctx->hw_frames_ctx"},
       {"dec_ctx", "dec_ctx->hw_device_ctx", "dec_ctx->hw_frames_ctx"},
       {"fmt_ctx"},
       {"pkt"},
       {"frame"},
       {"filt_frame"},
       {"hw_frames_ctx"},
       {"hw_device_ctx"} >>

\* The references in S that are held now.
Held(S) == {r \in S : acquired[r] > released[r]}

Acquire(S) == acquired' = [r \in Refs |-> acquired[r] + IF r \in S THEN 1 ELSE 0]
Release(S) == released' = [r \in Refs |-> released[r] + IF r \in S THEN 1 ELSE 0]

\* The references of an object after its construction: those of a complete
\* init() when it succeeded, the constructor's three when init() failed at
\* its first step.
Constructed(ok) ==
    /\ at = <<"live", 0>>
    /\ acquired = [r \in Refs |->
            IF r \in {"pkt", "frame", "filt_frame"} \/ ok THEN 1 ELSE 0]
    /\ released = [r \in Refs |->
            IF ok /\ r \in {"buffersrc_params", "outputs", "inputs"} THEN 1 ELSE 0]

\* bindings.cpp:115-124.  The constructor's three allocations; init() runs
\* only when none of them gave a null pointer.
Allocate ==
    /\ at = <<"new", 0>>
    /\ \E got \in SUBSET {"pkt", "frame", "filt_frame"} :
        /\ Acquire(got)
        /\ at' = IF got = {"pkt", "frame", "filt_frame"}
                 THEN <<"init", 1>> ELSE <<"live", 0>>
    /\ UNCHANGED <<members, pump, storage, negotiation, metadata, sample_total, released>>

\* A step of init() succeeds; the last one makes init() return true
\* (bindings.cpp:125, 634).
InitStepDone ==
    /\ at[1] = "init"
    /\ LET s == InitSteps[at[2]]
       IN  /\ Acquire(s.acq)
           /\ Release(Held(s.rel))
    /\ at' = IF at[2] = Len(InitSteps) THEN <<"live", 0>> ELSE <<"init", at[2] + 1>>
    /\ initialized' = (at[2] = Len(InitSteps))
    /\ UNCHANGED <<frame_count_, total_frames_, frame_width_, frame_height_,
                   video_time_base_, current_frame_pts_,
                   current_frame_time_seconds_, pump, storage, negotiation, metadata,
                   sample_total>>

\* A step of init() fails: init() releases what that branch releases and
\* returns false.
InitStepFailed ==
    /\ at[1] = "init"
    /\ Release(Held(InitSteps[at[2]].fail))
    /\ at' = <<"live", 0>>
    /\ UNCHANGED <<members, pump, storage, negotiation, metadata, sample_total, acquired>>

\* bindings.cpp:128, 637-648.  The destructor runs cleanup(), one call after
\* the other.
CleanupStep ==
    /\ at[1] \in {"live", "cleanup"}
    /\ Release(Held(CleanupSteps[at[2] + 1]))
    /\ at' = IF at[2] + 1 = Len(CleanupSteps) THEN <<"gone", 0>>
             ELSE <<"cleanup", at[2] + 1>>
    /\ UNCHANGED <<members, pump, storage, negotiation, metadata, sample_total, acquired>>

\* The get_format callback was not invoked yet.
NotNegotiated == pix_fmts = <<>> /\ hw_fmt = "unset"

\* ------------------------------------------------------------ total frames
\* The container declares nothing about the stream (no stream was looked at).
NoMetadata ==
    /\ nb_frames = 0 /\ duration = AV_NOPTS_VALUE
    /\ avg_frame_rate = <<0, 1>> /\ time_base = <<0, 1>>
    /\ sample_total = <<>>

\* What containers declare: a frame count (0: none), a duration in time-base
\* units (AV_NOPTS_VALUE: none), an average frame rate with a whole number of
\* frames per second (0/1: none), and a time base.
FrameCounts == {0, 90}
Durations == {AV_NOPTS_VALUE, 0, 90, 3000}
FrameRates == {<<0, 1>>, <<25, 1>>, <<30, 1>>}
StreamTimeBases == {<<1, 30>>, <<1, 1000>>, <<1001, 30000>>, <<1, 90000>>}

\* The whole number a double with a short odd significand is a multiple of:
\* d = OddPart(d) * 2^OddExp(d).
OddPart(d) == LET odd == StripZeros(d.man) IN ValueOf(odd, 1, Len(odd))
OddExp(d) == d.exp + (Len(d.man) - Len(StripZeros(d.man)))

\* a * b in double, rounded once to nearest even, for a factor b whose odd
\* significand is short (below 2^20): a whole frame rate.
DoubleTimesDouble(a, b) ==
    IF a.man = <<>> \/ b.man = <<>> THEN DZero
    ELSE RoundBits((a.sign + b.sign) % 2, MulSmall(a.man, OddPart(b)),
                   a.exp + OddExp(b), FALSE)

\* d / m in double for a double d that is a whole number below 2^23 (a
\* duration times a whole frame rate) and an int m: rounded once.
DoubleOverInt(d, m) ==
    IF d.man = <<>> THEN DZero
    ELSE DoubleOfRatio(OddPart(d) * Pow2(OddExp(d)), m)

\* static_cast<int>(d) for 0 <= d < 2^30: the digits left of the binary point.
TruncToInt(d) ==
    IF d.man = <<>> \/ DoublePrec + d.exp <= 0 THEN 0
    ELSE ValueOf(d.man, 1, DoublePrec + d.exp)

\* bindings.cpp:417-419.  static_cast<int>(duration *
\* av_q2d(avg_frame_rate) / 1000); the time base is not read.
LibraryEstimate(dur, rate, tb) ==
    TruncToInt(DoubleOverInt(Int64TimesDouble(dur, av_q2d(rate)), 1000))

\* README.md:531-537.  duration_seconds = (double) duration *
\* av_q2d(video_time_base_); static_cast<int>(duration_seconds * fps_double).
SampleEstimate(dur, rate, tb) ==
    TruncToInt(DoubleTimesDouble(Int64TimesDouble(dur, av_q2d(tb)), av_q2d(rate)))

\* bindings.cpp:409-428.  init() stores the stream's time base and the total:
\* the declared count when positive, else the estimate when a duration and a
\* positive frame rate are declared, else what the constructor left (0).
StoreTotalFrames ==
    /\ video_time_base_' = time_base
    /\ total_frames_' =
        IF nb_frames > 0 THEN nb_frames
        ELSE IF duration # AV_NOPTS_VALUE /\ avg_frame_rate[1] > 0
             THEN LibraryEstimate(duration, avg_frame_rate, time_base)
             ELSE total_frames_
    /\ UNCHANGED <<initialized, frame_count_, frame_width_, frame_height_,
                   current_frame_pts_, current_frame_time_seconds_, pump,
                   construction>>

\* README.md:522-547.  The same step of the sample program.
SampleTotalFrames ==
    /\ sample_total' =
        <<IF nb_frames > 0 THEN nb_frames
          ELSE IF duration # AV_NOPTS_VALUE /\ avg_frame_rate[1] > 0
               THEN SampleEstimate(duration, avg_frame_rate, time_base)
               ELSE 0>>
    /\ UNCHANGED <<members, pump, storage, negotiation, metadata, resources>>

TotalInit ==
    /\ PumpAtRest
    /\ NotNegotiated
    /\ nb_frames \in FrameCounts
    /\ duration \in Durations
    /\ avg_frame_rate \in FrameRates
    /\ time_base \in StreamTimeBases
    /\ sample_total = <<>>
    /\ Constructed(FALSE)
    /\ NoStorage

TotalNext == StoreTotalFrames \/ SampleTotalFrames

\* The total-frames step of init() and of the sample program, over what a
\* container may declare.
TotalSpec == TotalInit /\ [][TotalNext]_vars

\* ------------------------------------------------------------ get_hw_format
\* Longest list of pixel formats the decoder offers.
MaxFmts == 3
\* The pixel formats a decoder offers, and the terminator of its list, which
\* is also the answer "no format".
PixFmts == {"AV_PIX_FMT_DRM_PRIME", "AV_PIX_FMT_NV12", "AV_PIX_FMT_YUV420P",
            "AV_PIX_FMT_BGR24"}
AV_PIX_FMT_NONE == "AV_PIX_FMT_NONE"
\* The decoder contexts the callback is invoked for.
Contexts == {"dec_ctx", "other_ctx"}

RECURSIVE ScanFor(_, _, _)
\* bindings.cpp:358-365, 366-373.  for (p = pix_fmts; *p != AV_PIX_FMT_NONE;
\* p++) if (*p == want) return *p; AV_PIX_FMT_NONE stands for "loop left".
ScanFor(fmts, i, want) ==
    IF i > Len(fmts) THEN AV_PIX_FMT_NONE
    ELSE IF fmts[i] = want THEN fmts[i]
    ELSE ScanFor(fmts, i + 1, want)

RECURSIVE FirstUsableFrom(_, _)
FirstUsableFrom(fmts, i) ==
    IF i > Len(fmts) THEN AV_PIX_FMT_NONE
    ELSE IF fmts[i] \in {"AV_PIX_FMT_DRM_PRIME", "AV_PIX_FMT_NV12"} THEN fmts[i]
    ELSE FirstUsableFrom(fmts, i + 1)

\* A callback with one loop: the first listed format among the two usable.
FirstUsable(ctx, fmts) == FirstUsableFrom(fmts, 1)

\* bindings.cpp:348-379.  The whole list is searched for DRM_PRIME first and
\* for NV12 only then; ctx is not read.
get_hw_format(ctx, fmts) ==
    LET drm == ScanFor(fmts, 1, "AV_PIX_FMT_DRM_PRIME")
        nv12 == ScanFor(fmts, 1, "AV_PIX_FMT_NV12")
    IN  IF drm # AV_PIX_FMT_NONE THEN drm
        ELSE IF nv12 # AV_PIX_FMT_NONE THEN nv12
        ELSE AV_PIX_FMT_NONE

\* The decoder invokes its get_format callback (dec_ctx->get_format,
\* bindings.cpp:483) with the list it offers.
GetFormat ==
    /\ \E ctx \in Contexts : hw_fmt' = get_hw_format(ctx, pix_fmts)
    /\ UNCHANGED <<members, pump, storage, pix_fmts, metadata, sample_total, resources>>

HwInit ==
    /\ PumpAtRest
    /\ pix_fmts \in SeqsUpTo(PixFmts, MaxFmts)
    /\ hw_fmt = "unset"
    /\ NoMetadata
    /\ Constructed(FALSE)
    /\ NoStorage

HwNext == GetFormat

\* The callback alone, over every list the decoder may offer.
HwSpec == HwInit /\ [][HwNext]_vars

SetupInit ==
    /\ PumpAtRest
    /\ NotNegotiated
    /\ NoMetadata
    /\ at = <<"new", 0>>
    /\ acquired = [r \in Refs |-> 0]
    /\ released = [r \in Refs |-> 0]
    /\ NoStorage

SetupNext == Allocate \/ InitStepDone \/ InitStepFailed \/ CleanupStep

\* The life of one object from its constructor to the end of its destructor.
SetupSpec == SetupInit /\ [][SetupNext]_vars

BindInit ==
    /\ PumpAtRest
    /\ NotNegotiated
    /\ NoMetadata
    /\ Constructed(FALSE)
    /\ NoStorage

BindNext == GetNextFrameInto \/ PyGetNextFrame \/ PyDropArray

\* The hand-over of a frame to a C++ caller and to a Python caller, over the
\* addresses the allocator may hand out.
BindSpec == BindInit /\ [][BindNext]_vars

Init ==
    /\ initialized \in BOOLEAN
    /\ stream \in (IF initialized THEN SeqsUpTo(StreamIdxs, MaxPkts) ELSE {<<>>})
    /\ \E c \in (IF initialized THEN Configs ELSE {<<<<0, 1>>, 0, FALSE>>}) :
        /\ video_time_base_ = c[1]
        /\ sink_nb = c[2]
        /\ may_fault = c[3]
    /\ frame_width_ = IF initialized THEN SinkDim[1] ELSE 0
    /\ frame_height_ = IF initialized THEN SinkDim[2] ELSE 0
    /\ frame_count_ = 0
    /\ total_frames_ = IF initialized THEN Len(VideoIdsFrom(stream, 1)) ELSE 0
    /\ current_frame_pts_ = AV_NOPTS_VALUE
    /\ current_frame_time_seconds_ = DZero
    /\ pkt = NoPkt /\ frame = NoFrame /\ filt_frame = NoFilt
    /\ callers = {1}
    /\ pc = [t \in Threads |-> "idle"]
    /\ end_of_input_reached = [t \in Threads |-> FALSE]
    /\ output_mat = [t \in Threads |-> NoMat]
    /\ rd = 0
    /\ dec_q = <<>> /\ dec_draining = FALSE
    /\ flt_q = <<>> /\ flt_eof = FALSE
    /\ faults = 0
    /\ returned = <<>> /\ lastFrame = [id |-> 0, pts |-> AV_NOPTS_VALUE] /\ lastWhy = "init"
    /\ ops = {} /\ fatalOps = {} /\ lastOp = "none" /\ lastSt = "none"
    /\ unretrieved = 0
    /\ finished = "no" /\ afterFin = "no"
    /\ read_ids = <<>> /\ accepted = <<>>
    /\ eofMark = [set |-> FALSE, d |-> 0, t |-> 0, base |-> 0]
    /\ overlapped = FALSE
    /\ NotNegotiated
    /\ nb_frames = total_frames_
    /\ duration = AV_NOPTS_VALUE /\ avg_frame_rate = <<0, 1>>
    /\ time_base = video_time_base_
    /\ sample_total = <<>>
    /\ Constructed(initialized)
    /\ NoStorage

Next ==
    \E t \in Threads :
        \/ Call(t)
        \/ SinkGet(t)
        \/ DecRecv(t)
        \/ Feed(t)
        \/ ReadFrame(t)
        \/ SendPacket(t)
        \/ DrainRecv(t)
        \/ DrainFeed(t)
        \/ DrainSink(t)
        \/ FlushSend(t)
        \/ FlushRecv(t)
        \/ FlushFeed(t)
        \/ FlushSrc(t)
        \/ FlushSink(t)

\* A step of a running call: everything but the entry.
PumpStep(t) ==
    \/ SinkGet(t)
    \/ DecRecv(t)
    \/ Feed(t)
    \/ ReadFrame(t)
    \/ SendPacket(t)
    \/ DrainRecv(t)
    \/ DrainFeed(t)
    \/ DrainSink(t)
    \/ FlushSend(t)
    \/ FlushRecv(t)
    \/ FlushFeed(t)
    \/ FlushSrc(t)
    \/ FlushSink(t)

Spec == Init /\ [][Next]_vars

\* A call in progress is sequential code on its caller's thread and keeps
\* running; whether the caller calls again is left open.
LiveSpec == Spec /\ \A t \in Threads : WF_vars(PumpStep(t))

\* ------------------------------------------------------------ two callers
\* The members, slots and stages are shared by every caller of the object
\* (part_000:52-72) and GetNextFrame takes no lock (bindings.cpp:178-333): the
\* calls of two threads interleave between any two library calls.  Only the
\* interleavings are followed in which a library call finds the shared slot
\* it works on filled: the packet at avcodec_send_packet, the frame at
\* av_buffersrc_add_frame_flags.
SlotsFilled(t) ==
    /\ (pc[t] = "send") => pkt # NoPkt
    /\ (pc[t] \in {"feed", "drain_feed", "flush_feed"}) => frame # NoFrame

\* A session of video packets only, with a supported layout and without
\* unrecoverable statuses, used by two threads.
RaceInit ==
    /\ initialized = TRUE
    /\ stream \in SeqsUpTo({video_stream_idx}, MaxPkts)
    /\ video_time_base_ = <<1, 30>> /\ sink_nb = 3 /\ may_fault = FALSE
    /\ frame_width_ = SinkDim[1] /\ frame_height_ = SinkDim[2]
    /\ frame_count_ = 0
    /\ total_frames_ = Len(VideoIdsFrom(stream, 1))
    /\ current_frame_pts_ = AV_NOPTS_VALUE
    /\ current_frame_time_seconds_ = DZero
    /\ pkt = NoPkt /\ frame = NoFrame /\ filt_frame = NoFilt
    /\ callers = Threads
    /\ pc = [t \in Threads |-> "idle"]
    /\ end_of_input_reached = [t \in Threads |-> FALSE]
    /\ output_mat = [t \in Threads |-> NoMat]
    /\ rd = 0
    /\ dec_q = <<>> /\ dec_draining = FALSE
    /\ flt_q = <<>> /\ flt_eof = FALSE
    /\ faults = 0
    /\ returned = <<>> /\ lastFrame = [id |-> 0, pts |-> AV_NOPTS_VALUE]
    /\ lastWhy = "init"
    /\ ops = {} /\ fatalOps = {} /\ lastOp = "none" /\ lastSt = "none"
    /\ unretrieved = 0
    /\ finished = "no" /\ afterFin = "no"
    /\ read_ids = <<>> /\ accepted = <<>>
    /\ eofMark = [set |-> FALSE, d |-> 0, t |-> 0, base |-> 0]
    /\ overlapped = FALSE
    /\ NotNegotiated
    /\ nb_frames = total_frames_
    /\ duration = AV_NOPTS_VALUE /\ avg_frame_rate = <<0, 1>>
    /\ time_base = video_time_base_
    /\ sample_total = <<>>
    /\ Constructed(TRUE)
    /\ NoStorage

RaceNext ==
    \E t \in Threads :
        \/ Call(t)
        \/ SlotsFilled(t) /\ SinkGet(t)
        \/ SlotsFilled(t) /\ DecRecv(t)
        \/ SlotsFilled(t) /\ Feed(t)
        \/ SlotsFilled(t) /\ ReadFrame(t)
        \/ SlotsFilled(t) /\ SendPacket(t)
        \/ SlotsFilled(t) /\ DrainRecv(t)
        \/ SlotsFilled(t) /\ DrainFeed(t)
        \/ SlotsFilled(t) /\ DrainSink(t)
        \/ SlotsFilled(t) /\ FlushSend(t)
        \/ SlotsFilled(t) /\ FlushRecv(t)
        \/ SlotsFilled(t) /\ FlushFeed(t)
        \/ SlotsFilled(t) /\ FlushSrc(t)
        \/ SlotsFilled(t) /\ FlushSink(t)

\* Two threads that call GetNextFrame of one object whenever they like.
RaceSpec == RaceInit /\ [][RaceNext]_vars

\* ------------------------------------------------------------ properties
\* No call of GetNextFrame is running.
Idle == \A t \in callers : pc[t] = "idle"

\* The session was set up, its frames have a supported layout, no collaborator
\* reported an unrecoverable status and no stall was detected.
Healthy == initialized /\ sink_nb \in {1, 3} /\ faults = 0 /\ finished # "broken"

\* The operations whose unrecoverable status the pump looks at.
ListedOps == {"src_next", "dec_submit", "dec_retrieve", "flt_submit",
              "flt_retrieve", "flt_flush"}

\* The operations that take nothing in: polling and flushing.
PollingOps == {"flt_retrieve", "dec_flush", "dec_retrieve", "flt_flush"}

\* C1: in a healthy session over a stream of N video packets, the frames
\* returned so far are the first frames of the stream in order, numbered
\* 1, 2, ..., and a call returns no frame only after all N were returned.
C1_NFramesThenNone ==
    (Healthy /\ Idle) =>
        /\ IsPrefix(returned, VideoIds)
        /\ frame_count_ = Len(returned)
        /\ (lastWhy = "eos" => returned = VideoIds)

\* C2: a step that takes a finished frame out of the filter graph ends the
\* running call, a call that succeeds returns the frame that step took out,
\* and no call succeeds without such a step: one frame per successful call,
\* none dropped.
C2_OneFramePerSuccess ==
    [][/\ (Len(flt_q') < Len(flt_q)) =>
            /\ Len(flt_q') = Len(flt_q) - 1
            /\ \A t \in callers : pc'[t] = "idle"
            /\ (lastWhy' = "frame" =>
                    /\ returned' = Append(returned, Head(flt_q).id)
                    /\ \E t \in callers :
                         pc[t] # "idle" /\ output_mat'[t].id = Head(flt_q).id)
       /\ (returned' # returned) =>
            /\ Len(flt_q') = Len(flt_q) - 1
            /\ lastWhy' = "frame"]_vars

C2_Witness ==
    /\ Idle /\ lastWhy = "frame"
    /\ Len(returned) >= 2
    /\ output_mat[1].id = lastFrame.id
    /\ returned[Len(returned)] = lastFrame.id

C4_EveryPacketAcceptedOnce ==
    (Idle /\ faults = 0 /\ finished # "broken") =>
        /\ accepted = read_ids
        /\ pkt = NoPkt

C6_BrokenSessionStaysFinished ==
    afterFin = "broken" => (ops = {} /\ (Idle => lastWhy # "frame"))

\* C7: once one of the listed operations reported an unrecoverable status,
\* the call has ended, and it returned no frame.
C7_FatalReturnsNone ==
    (fatalOps \cap ListedOps # {}) => (Idle /\ lastWhy = "fatal")

C7_Witness ==
    /\ Idle /\ lastWhy = "fatal"
    /\ "flt_retrieve" \in fatalOps
    /\ flt_q # <<>>
    /\ returned # <<>>

\* C8: the frame counter is the number of frames returned so far, 0 before
\* the first one.
C8_CounterCountsReturnedFrames == frame_count_ = Len(returned)

C8_Witness ==
    /\ Idle /\ lastWhy = "frame"
    /\ frame_count_ = 2 /\ Len(returned) = 2

\* C9: once a frame was returned, no step changes frame_width_ or
\* frame_height_.
C9_SizeFixedAfterFirstFrame ==
    [][frame_count_ >= 1 =>
          (frame_width_' = frame_width_ /\ frame_height_' = frame_height_)]_vars

C9_Witness ==
    /\ Idle /\ lastWhy = "frame"
    /\ frame_count_ >= 2
    /\ output_mat[1].cols # frame_width_
    /\ output_mat[1].rows # frame_height_

\* C10: after a call returned a frame, current_frame_pts_ is the pts of that
\* frame; with a time base num/den (both positive) and a pts that is set,
\* current_frame_time_seconds_ is pts * num / den up to the rounding of the
\* double product, and with the time base 1/30 and a pts of 0, 30, 60, ...
\* it is exactly pts / 30.
C10_PtsAndSeconds ==
    (Idle /\ lastWhy = "frame") =>
        /\ current_frame_pts_ = lastFrame.pts
        /\ (video_time_base_[1] > 0 /\ video_time_base_[2] > 0) =>
              /\ current_frame_pts_ = 0 => current_frame_time_seconds_ = DZero
              /\ current_frame_pts_ > 0 =>
                    NearDouble(current_frame_time_seconds_,
                               DoubleOfRatio(current_frame_pts_ * video_time_base_[1],
                                             video_time_base_[2]))
        /\ (video_time_base_ = <<1, 30>> /\ current_frame_pts_ >= 0) =>
              DoubleIsRational(current_frame_time_seconds_, current_frame_pts_, 30)

C10_Witness ==
    /\ Idle /\ lastWhy = "frame"
    /\ video_time_base_ = <<1, 30>>
    /\ current_frame_pts_ = 60
    /\ DoubleIsRational(current_frame_time_seconds_, 2, 1)

\* C11: a call returns no frame only when the session was never set up, the
\* frame has an unsupported layout, or the last status it got was an end of
\* stream or an unrecoverable one, or, after EAGAIN from avcodec_send_packet,
\* the decoder had nothing to drain (the stall); never on a bare EAGAIN.
C11_TransientsAbsorbed ==
    (Idle /\ lastWhy \notin {"init", "frame", "uninit", "fmt"}) =>
        \/ lastSt = "EOF"
        \/ lastSt \in {"ERR", "EINVAL"} /\ lastWhy = "fatal"
        \/ /\ lastWhy = "stall"
           /\ lastOp = "dec_retrieve"
           /\ "dec_submit" \in ops

C11_Witness ==
    /\ Idle /\ faults = 0
    /\ lastWhy = "eos" /\ lastSt = "EOF"
    /\ {"flt_retrieve", "dec_retrieve", "src_next"} \subseteq ops
    /\ returned # <<>>

\* C12: a step that reads a packet of another stream releases it, leaves the
\* decoder alone and keeps the call running; every packet the decoder accepts
\* is a packet of the selected stream.
C12_OtherStreamsSkipped ==
    [][/\ (rd' = rd + 1 /\ stream[rd'] # video_stream_idx) =>
            /\ pkt' = NoPkt
            /\ dec_q' = dec_q /\ accepted' = accepted
            /\ \E t \in callers : pc[t] = "read" /\ pc'[t] = "sink"
            /\ lastWhy' = lastWhy
       /\ (accepted' # accepted) =>
            stream[accepted'[Len(accepted')]] = video_stream_idx]_vars

C12_Witness ==
    /\ Idle /\ lastWhy = "frame"
    /\ stream[1] = OtherStreamIdx
    /\ returned = <<2>>
    /\ {"src_next", "dec_submit"} \subseteq ops

\* C13: a call that ends at the end of the stream and a call that ends on an
\* error both return false (None in Python), and neither changes a member a
\* query reads: only the step that returns a frame changes the members.
C13_NoFrameOutcomesAlike ==
    [][\A t \in callers :
        /\ (members' # members) => lastWhy' = "frame"
        /\ (pc[t] # "idle" /\ pc'[t] = "idle"
                /\ lastWhy' \in {"eos", "fatal", "stall", "fmt"}) =>
            /\ members' = members
            /\ output_mat' = output_mat
            /\ ~GetNextFrameRet'
            /\ get_next_frame(t)' = "None"]_vars

C13_Witness ==
    /\ Idle
    /\ finished = "broken" /\ lastWhy = "eos"
    /\ frame_count_ >= 1
    /\ current_frame_pts_ = lastFrame.pts
    /\ get_next_frame(1) = "None"

\* C14: after every completed call of an initialized session the Python
\* get_next_frame gives an array when GetNextFrame returned true and None when
\* it returned false.
C14_ArrayOrNone ==
    (Idle /\ lastWhy \notin {"init", "uninit"}) =>
        get_next_frame(1) = IF GetNextFrameRet THEN "ndarray" ELSE "None"

\* C15: initialized never changes after construction, and in a session whose
\* construction failed every call returns false at once: no library call is
\* made, no member, slot or stage changes, and no call stays in progress.
C15_UninitializedIsInert ==
    [][/\ initialized' = initialized
       /\ ~initialized =>
            /\ members' = members /\ slots' = slots /\ stages' = stages
            /\ output_mat' = output_mat
            /\ ops' = {} /\ lastOp' = "none"
            /\ \A t \in Threads : pc'[t] = "idle"
            /\ lastWhy' = "uninit"
            /\ ~GetNextFrameRet']_vars

C15_Witness ==
    /\ ~initialized
    /\ lastWhy = "uninit"
    /\ Idle /\ ops = {}
    /\ frame_count_ = 0 /\ returned = <<>>

\* C16: in the main loop of a call the sink is asked first, the decoder is
\* asked only right after the sink answered EAGAIN, a packet is read only
\* right after the decoder answered EAGAIN too, and after a frame is fed to
\* the filter graph the sink is asked again before any packet is read.
C16_OutputFirst ==
    [][\A t \in callers :
        /\ (pc[t] = "idle" /\ pc'[t] # "idle") => pc'[t] = "sink"
        /\ (pc[t] = "sink" /\ pc'[t] # "sink") =>
            /\ lastOp' = "flt_retrieve"
            /\ lastOp \in {"none", "flt_submit", "src_next", "dec_submit"}
            /\ (pc'[t] = "dec_recv") <=> (lastSt' = "EAGAIN")
        /\ (pc[t] = "dec_recv" /\ pc'[t] # "dec_recv") =>
            /\ lastOp = "flt_retrieve" /\ lastSt = "EAGAIN"
            /\ lastOp' = "dec_retrieve"
            /\ (pc'[t] = "read") <=> (lastSt' = "EAGAIN")
            /\ (pc'[t] = "feed") <=> (lastSt' = "OK")
        /\ (pc[t] = "read" /\ pc'[t] # "read") =>
            /\ lastOp = "dec_retrieve" /\ lastSt = "EAGAIN"
            /\ lastOp' = "src_next"
        /\ (pc[t] = "feed" /\ pc'[t] # "feed") =>
            /\ lastOp' = "flt_submit"
            /\ pc'[t] \in {"sink", "idle"}
            /\ (pc'[t] = "sink") <=> (lastSt' = "OK")
        /\ (pc[t] # "dec_recv" /\ pc'[t] = "dec_recv") => pc[t] = "sink"
        /\ (pc[t] # "read" /\ pc'[t] = "read") => pc[t] = "dec_recv"]_vars

C16_Witness ==
    /\ Idle /\ lastWhy = "frame"
    /\ ops = {"flt_retrieve", "dec_retrieve", "src_next", "dec_submit", "flt_submit"}
    /\ lastOp = "flt_retrieve" /\ lastSt = "OK"
    /\ read_ids = accepted

\* The frames avcodec_receive_frame has handed out so far, in that order:
\* the decoder answers in the order it accepted the packets, and what it has
\* accepted but not handed out is its queue.
Produced == SubSeq(accepted, 1, Len(accepted) - Len(dec_q))

\* The decoded frames on their way to the caller, oldest first.
InFlight ==
    [i \in 1..Len(flt_q) |-> flt_q[i].id]
        \o (IF frame = NoFrame THEN <<>> ELSE <<frame.id>>)

\* C17: the frames returned are frames the decoder produced, in the order it
\* produced them and each one once; while no frame is lost to an error the
\* frames returned are exactly the first frames produced, and the rest are
\* queued behind them in the same order.
C17_DecoderOrderKept ==
    /\ \E f \in [1..Len(returned) -> 1..Len(Produced)] :
        /\ \A i \in 1..Len(returned) : Produced[f[i]] = returned[i]
        /\ \A i, j \in 1..Len(returned) : i < j => f[i] < f[j]
    /\ (faults = 0 /\ sink_nb \in {1, 3}) => Produced = returned \o InFlight

C17_Witness ==
    /\ Idle /\ lastWhy = "frame"
    /\ Len(returned) = 3
    /\ faults = 0
    /\ {"dec_flush", "flt_flush"} \subseteq ops
    /\ \E t \in callers : output_mat[t].id = 3

\* C18: the final flush runs in order: avcodec_send_packet(NULL) first, then
\* avcodec_receive_frame with every frame it gives fed to the filter graph,
\* and the graph is closed only right after a receive that gave no frame;
\* when the decoder took the flush that receive said AVERROR_EOF and the
\* decoder holds no frame at the moment the graph is closed.
C18_FlushOrder ==
    [][\A t \in callers :
        /\ (pc[t] = "flush_send" /\ pc'[t] # "flush_send") =>
            /\ end_of_input_reached[t]
            /\ lastOp' = "dec_flush"
            /\ pc'[t] = "flush_recv"
        /\ (pc[t] = "flush_recv" /\ pc'[t] # "flush_recv") =>
            /\ lastOp \in {"dec_flush", "flt_submit"}
            /\ lastOp' = "dec_retrieve"
            /\ (pc'[t] = "flush_feed") <=> (lastSt' = "OK")
            /\ (pc'[t] = "flush_src") <=> (lastSt' \in {"EOF", "EAGAIN"})
        /\ (pc[t] = "flush_feed" /\ pc'[t] # "flush_feed") =>
            /\ lastOp' = "flt_submit"
            /\ (lastSt' = "OK") =>
                /\ pc'[t] = "flush_recv"
                /\ flt_q' = Append(flt_q, [id |-> frame.id, pts |-> frame.pts])
        /\ (pc[t] = "flush_src" /\ pc'[t] # "flush_src") =>
            /\ lastOp' = "flt_flush"
            /\ "dec_flush" \in ops
            /\ lastOp = "dec_retrieve" /\ lastSt \in {"EOF", "EAGAIN"}
            /\ frame = NoFrame
            /\ dec_draining => (lastSt = "EOF" /\ dec_q = <<>>)
            /\ (faults = 0) => dec_draining
        /\ (pc[t] # "flush_src" /\ pc'[t] = "flush_src") => pc[t] = "flush_recv"]_vars

C18_Witness ==
    /\ \E t \in callers : pc[t] = "flush_sink"
    /\ lastOp = "flt_flush" /\ lastSt = "OK"
    /\ {"dec_flush", "dec_retrieve", "flt_submit"} \subseteq ops
    /\ dec_draining /\ dec_q = <<>>
    /\ Len(flt_q) = 2
    /\ faults = 0

\* C19 as stated: at no time has av_buffersrc_add_frame_flags been called
\* twice since the last av_buffersink_get_frame.
C19_NoDoubleSubmit == unretrieved <= 1

\* C19, amended: in the main loop and in the busy drain a frame is fed only
\* when nothing was fed since the sink was last asked, and the sink is asked
\* right after; the final flush feeds every frame it drains from the decoder
\* one after the other and asks the sink only after closing the graph, so
\* outside the flush at most one frame is fed per look at the sink.
C19_OneSubmitPerRetrieveOutsideFlush ==
    [][\A t \in callers :
        /\ (pc[t] \in {"feed", "drain_feed"} /\ pc'[t] # pc[t]) =>
            /\ unretrieved = 0 /\ unretrieved' = 1
            /\ lastOp' = "flt_submit"
            /\ pc'[t] \in {"sink", "drain_sink", "idle"}
        /\ (pc[t] \in {"sink", "drain_sink"} /\ pc'[t] # pc[t]) =>
            /\ lastOp' = "flt_retrieve" /\ unretrieved' = 0
        /\ (pc[t] = "flush_feed" /\ pc'[t] # pc[t]) =>
            /\ unretrieved' = unretrieved + 1
            /\ pc'[t] \in {"flush_recv", "idle"}
        /\ (unretrieved' > 1 /\ unretrieved' # unretrieved) =>
            /\ pc[t] = "flush_feed"
            /\ "dec_flush" \in ops
            /\ unretrieved' <= Len(accepted)]_vars

C19_Witness ==
    /\ \E t \in callers : pc[t] = "flush_src"
    /\ unretrieved = 2
    /\ lastOp = "dec_retrieve" /\ lastSt = "EOF"
    /\ Len(flt_q) = 2
    /\ returned # <<>>
    /\ faults = 0

\* C20: at each of the three places where a decoded frame is fed to the
\* filter graph (main loop, busy drain, final flush) a status other than
\* success ends the call at once with false: the frame is unreferenced,
\* nothing is queued, no member changes and Python gets None.
C20_RefusedFeedIsFatal ==
    [][\A t \in callers :
        (pc[t] \in {"feed", "drain_feed", "flush_feed"} /\ pc'[t] # pc[t]
                /\ lastSt' # "OK") =>
            /\ lastOp' = "flt_submit"
            /\ "flt_submit" \in fatalOps'
            /\ pc'[t] = "idle" /\ lastWhy' = "fatal"
            /\ frame # NoFrame /\ frame' = NoFrame
            /\ (pc[t] = "drain_feed") => (pkt # NoPkt /\ pkt' = NoPkt)
            /\ flt_q' = flt_q
            /\ members' = members /\ returned' = returned
            /\ ~GetNextFrameRet'
            /\ get_next_frame(t)' = "None"]_vars

C20_Witness ==
    /\ Idle /\ lastWhy = "fatal"
    /\ lastOp = "flt_submit" /\ lastSt = "ERR"
    /\ fatalOps = {"flt_submit"}
    /\ "dec_submit" \in ops /\ "dec_flush" \notin ops
    /\ Len(read_ids) > Len(accepted)
    /\ frame = NoFrame /\ pkt = NoPkt

\* C21: in the retry loop, when avcodec_send_packet said EAGAIN and
\* avcodec_receive_frame then has no frame (EAGAIN or AVERROR_EOF), the loop
\* is left at once: the packet is unreferenced without having been accepted,
\* the call returns false and nothing of the session changes.
C21_StallEndsTheCall ==
    [][\A t \in callers :
        (pc[t] = "drain_recv" /\ pc'[t] # pc[t]
                /\ lastSt' \in {"EAGAIN", "EOF"}) =>
            /\ lastOp = "dec_submit" /\ lastSt = "EAGAIN"
            /\ lastOp' = "dec_retrieve"
            /\ pc'[t] = "idle" /\ lastWhy' = "stall"
            /\ pkt # NoPkt /\ pkt' = NoPkt
            /\ accepted' = accepted /\ dec_q' = dec_q
            /\ members' = members /\ returned' = returned
            /\ ~GetNextFrameRet'
            /\ get_next_frame(t)' = "None"]_vars

C21_Witness ==
    /\ Idle /\ lastWhy = "stall"
    /\ lastOp = "dec_retrieve" /\ lastSt = "EAGAIN"
    /\ Len(dec_q) = DecCap
    /\ Len(read_ids) = Len(accepted) + 1
    /\ pkt = NoPkt
    /\ faults = 0

\* C22: every decoded frame handed to the filter graph carries a
\* presentation time stamp: where the decoder left pts unset the pump has
\* put best_effort_timestamp in its place.
C22_BestEffortOnEveryPath ==
    /\ \A i \in 1..Len(flt_q) : flt_q[i].pts = PtsOf(flt_q[i].id)
    /\ (lastWhy = "frame" /\ Idle) => lastFrame.pts = PtsOf(lastFrame.id)

\* The positions of the final flushing logic.
FlushPcs == {"flush_send", "flush_recv", "flush_feed", "flush_src", "flush_sink"}

\* C23: when avcodec_receive_frame says AVERROR_EOF the call goes to the
\* final flush and stays there: it reads and sends no packet any more, closes
\* the filter graph right after the decoder is drained, and then returns the
\* frame the sink gives, or false when the sink says AVERROR_EOF.
C23_DecoderEofLeadsToFlush ==
    [][\A t \in callers :
        /\ (pc[t] = "dec_recv" /\ pc'[t] # pc[t] /\ lastSt' = "EOF") =>
            /\ pc'[t] = "flush_send"
            /\ end_of_input_reached'[t]
        /\ (pc[t] \in FlushPcs /\ pc'[t] # pc[t]) =>
            /\ pc'[t] \in FlushPcs \cup {"idle"}
            /\ lastOp' \notin {"src_next", "dec_submit"}
            /\ rd' = rd /\ accepted' = accepted
        /\ (pc[t] = "flush_recv" /\ pc'[t] # pc[t] /\ lastSt' = "EOF") =>
            pc'[t] = "flush_src"
        /\ (pc[t] = "flush_src" /\ pc'[t] # pc[t]) =>
            /\ lastOp' = "flt_flush"
            /\ (lastSt' = "OK") => (pc'[t] = "flush_sink" /\ flt_eof')
        /\ (pc[t] = "flush_sink" /\ pc'[t] # pc[t]) =>
            /\ lastOp' = "flt_retrieve"
            /\ pc'[t] = "idle"
            /\ (lastSt' = "OK" /\ sink_nb \in {1, 3}) =>
                /\ GetNextFrameRet'
                /\ returned' = Append(returned, Head(flt_q).id)
            /\ (lastSt' = "EOF") => (lastWhy' = "eos" /\ ~GetNextFrameRet')]_vars

C23_Witness ==
    /\ Idle /\ lastWhy = "frame"
    /\ {"dec_retrieve", "dec_flush", "flt_flush"} \subseteq ops
    /\ "src_next" \notin ops
    /\ dec_draining /\ dec_q = <<>> /\ flt_eof

SinkPcs == {"sink", "drain_sink", "flush_sink"}

\* C25: when the sink hands out a frame whose pixel format is unknown (0
\* components here) or has a component count other than 1 or 3, the call
\* returns false: the caller's matrix is not written, no member changes and
\* the frame is not counted as returned.
C25_UnsupportedLayoutIsAnError ==
    [][\A t \in callers :
        (pc[t] \in SinkPcs /\ pc'[t] # pc[t] /\ lastSt' = "OK"
                /\ sink_nb \notin {1, 3}) =>
            /\ flt_q # <<>> /\ flt_q' = Tail(flt_q)
            /\ pc'[t] = "idle" /\ lastWhy' = "fmt"
            /\ ~GetNextFrameRet'
            /\ get_next_frame(t)' = "None"
            /\ output_mat' = output_mat
            /\ members' = members
            /\ returned' = returned]_vars

C25_Witness ==
    /\ Idle /\ lastWhy = "fmt"
    /\ sink_nb = 4
    /\ lastOp = "flt_retrieve" /\ lastSt = "OK"
    /\ output_mat[1] = NoMat
    /\ frame_count_ = 0 /\ returned = <<>>

\* C26: whenever no call is running the frame slot of the sink is empty: the
\* frame av_buffersink_get_frame put in filt_frame was unreferenced before
\* the call returned.
C26_FiltFrameReleased ==
    Idle => filt_frame = NoFilt

\* C27: the packet slot and the decoded-frame slot are empty whenever no call
\* is running; a packet is read only into an empty slot and a frame is
\* received only into an empty slot; and a refused or failed submission
\* empties the slot as an accepted one does.
C27_PacketsAndFramesReleased ==
    [][/\ Idle' => (pkt' = NoPkt /\ frame' = NoFrame)
       /\ (pkt' # NoPkt /\ pkt' # pkt) => (pkt = NoPkt /\ lastOp' = "src_next")
       /\ (frame' # NoFrame /\ frame' # frame) =>
            (frame = NoFrame /\ lastOp' = "dec_retrieve" /\ lastSt' = "OK")
       /\ (rd' # rd) => frame = NoFrame
       /\ \A t \in callers :
            /\ (pc[t] = "send" /\ pc'[t] # pc[t] /\ lastSt' # "EAGAIN") =>
                (pkt # NoPkt /\ pkt' = NoPkt)
            /\ (pc[t] \in {"feed", "drain_feed", "flush_feed"} /\ pc'[t] # pc[t]) =>
                (frame # NoFrame /\ frame' = NoFrame)]_vars

C27_Witness ==
    /\ Idle /\ lastWhy = "fatal"
    /\ lastOp = "dec_submit" /\ lastSt = "ERR"
    /\ read_ids # accepted
    /\ pkt = NoPkt /\ frame = NoFrame

\* C28: every call that was started returns.
C28_EveryCallReturns ==
    \A t \in Threads : (pc[t] # "idle") ~> (pc[t] = "idle")

C28_Witness ==
    /\ Idle /\ lastWhy = "frame"
    /\ ListedOps \cup {"dec_flush"} \subseteq ops
    /\ Len(returned) >= 2
    /\ faults = 0

\* C29: after av_read_frame has said AVERROR_EOF it is not called again: the
\* call that saw it goes to the flush, and a later call finds a frame or
\* AVERROR_EOF at the sink, or AVERROR_EOF at the decoder, before it gets to
\* reading.  The one way back to av_read_frame is a decoder that did not
\* take the flush because avcodec_send_packet(NULL) failed.
C29_NoReadAfterEndOfFile ==
    [][\A t \in callers :
        /\ (pc[t] = "read" /\ pc'[t] # pc[t] /\ eofMark.set) =>
            (~dec_draining /\ faults >= 1)
        /\ (pc[t] = "read" /\ pc'[t] # pc[t] /\ lastSt' = "EOF") =>
            (eofMark'.set /\ pc'[t] = "flush_send")
        /\ (eofMark.set /\ dec_draining /\ pc'[t] # pc[t]) =>
            (lastOp' # "src_next" /\ rd' = rd)]_vars

C29_Witness ==
    /\ Idle /\ lastWhy = "frame"
    /\ eofMark.set /\ rd = Len(stream)
    /\ ops = {"flt_retrieve"}
    /\ faults = 0
    /\ Len(returned) >= 2

\* C30: a packet is sent to the decoder only before the decoder was flushed,
\* and once flushed the decoder accepts nothing and stays flushed; once the
\* filter graph was closed it stays closed and takes no frame, and a frame is
\* offered to it only when avcodec_send_packet(NULL) had failed and left
\* frames in the decoder.
C30_NothingSubmittedAfterFlush ==
    [][/\ dec_draining => (dec_draining' /\ accepted' = accepted)
       /\ flt_eof => (flt_eof' /\ (flt_q' = flt_q \/ flt_q' = Tail(flt_q)))
       /\ \A t \in callers :
            /\ (pc[t] = "send" /\ pc'[t] # pc[t]) =>
                (~dec_draining /\ ~eofMark.set /\ lastOp' = "dec_submit")
            /\ (pc[t] \in {"feed", "drain_feed"} /\ pc'[t] # pc[t]) => ~flt_eof
            /\ (pc[t] = "flush_feed" /\ pc'[t] # pc[t] /\ flt_eof) =>
                (faults >= 1 /\ lastSt' # "OK")]_vars

C30_Witness ==
    /\ Idle /\ afterFin = "clean"
    /\ dec_draining /\ flt_eof
    /\ Len(accepted) >= 3 /\ accepted = read_ids
    /\ "dec_flush" \in ops
    /\ "dec_submit" \notin ops /\ "flt_submit" \notin ops
    /\ faults = 0

\* The fields the queries frame_count, width, height, last_pts and
\* last_pts_seconds read.
FrameFields ==
    <<frame_count_, frame_width_, frame_height_, current_frame_pts_,
      current_frame_time_seconds_>>

\* C31: a call that returns no frame (end of the stream, a fatal status, a
\* stall, an unsupported pixel layout, an uninitialized session) leaves the
\* frame counter, the width and height, the last PTS and the last PTS in
\* seconds as they were: these fields change in one step only, the step that
\* ends a call with a frame, and every step that ends a call otherwise (or
\* answers a call of an uninitialized session) keeps each of them.
C31_NoFrameKeepsFrameFields ==
    [][/\ (FrameFields' # FrameFields) =>
            /\ lastWhy' = "frame"
            /\ \E t \in callers : pc[t] \in SinkPcs /\ pc'[t] = "idle"
       /\ \A t \in callers :
            (pc'[t] = "idle" /\ lastWhy' \in {"eos", "fatal", "stall", "fmt", "uninit"}) =>
                /\ frame_count_' = frame_count_
                /\ frame_width_' = frame_width_
                /\ frame_height_' = frame_height_
                /\ current_frame_pts_' = current_frame_pts_
                /\ current_frame_time_seconds_' = current_frame_time_seconds_]_vars

C31_Witness ==
    /\ Idle
    /\ lastWhy = "fatal"
    /\ frame_count_ = 2 /\ Len(returned) = 2
    /\ current_frame_pts_ = lastFrame.pts
    /\ current_frame_pts_ = PtsOf(returned[2])
    /\ current_frame_time_seconds_ = TimeSeconds(current_frame_pts_)
    /\ current_frame_time_seconds_ # DZero

\* The stream's time base has a zero numerator or a zero denominator.
ZeroTimeBase == video_time_base_[1] = 0 \/ video_time_base_[2] = 0

\* C37: in a session whose time base has a zero numerator or denominator
\* last_pts_seconds() is 0.0 in every state, while last_pts() is the PTS of
\* the frame returned last; before any frame was returned last_pts() is
\* AV_NOPTS_VALUE and last_pts_seconds() is 0.0, whatever the time base.
C37_ZeroTimeBaseGivesZeroSeconds ==
    /\ ZeroTimeBase =>
        /\ current_frame_time_seconds_ = DZero
        /\ (frame_count_ > 0) => current_frame_pts_ = Filtered(lastFrame).pts
    /\ (frame_count_ = 0) =>
        /\ current_frame_pts_ = AV_NOPTS_VALUE
        /\ current_frame_time_seconds_ = DZero

C37_Witness ==
    /\ Idle /\ lastWhy = "frame"
    /\ video_time_base_ = <<1, 0>>
    /\ frame_count_ = 2
    /\ current_frame_pts_ = PtsOf(2)
    /\ current_frame_pts_ # AV_NOPTS_VALUE
    /\ current_frame_time_seconds_ = DZero

\* The formats of a list.
Listed(fmts) == {fmts[i] : i \in 1..Len(fmts)}

\* C34: get_hw_format answers DRM_PRIME whenever the list holds it, at any
\* position; otherwise NV12 when the list holds it; otherwise
\* AV_PIX_FMT_NONE; the answer is the same for every decoder context.
C34_HwFormatSelection ==
    /\ (hw_fmt # "unset") =>
        hw_fmt = IF "AV_PIX_FMT_DRM_PRIME" \in Listed(pix_fmts)
                 THEN "AV_PIX_FMT_DRM_PRIME"
                 ELSE IF "AV_PIX_FMT_NV12" \in Listed(pix_fmts)
                      THEN "AV_PIX_FMT_NV12"
                      ELSE AV_PIX_FMT_NONE
    /\ \A c1, c2 \in Contexts :
        get_hw_format(c1, pix_fmts) = get_hw_format(c2, pix_fmts)

C34_Witness ==
    /\ Len(pix_fmts) = 3
    /\ pix_fmts[1] = "AV_PIX_FMT_YUV420P"
    /\ pix_fmts[2] = "AV_PIX_FMT_NV12"
    /\ pix_fmts[3] = "AV_PIX_FMT_DRM_PRIME"
    /\ hw_fmt = "AV_PIX_FMT_DRM_PRIME"

\* The library and the sample program both worked out the total.
TotalsKnown == video_time_base_ = time_base /\ sample_total # <<>>

\* C35: get_frame_total is the declared frame count when that is positive;
\* otherwise, when a duration and a positive average frame rate are declared,
\* the duration in seconds (duration times time base) times the frame rate,
\* cut to an integer; otherwise 0; and the library and the sample program
\* work out the same value for every time base.
C35_TotalFramesAsDeclaredOrEstimated ==
    TotalsKnown =>
        /\ total_frames_ =
            IF nb_frames > 0 THEN nb_frames
            ELSE IF duration # AV_NOPTS_VALUE /\ avg_frame_rate[1] > 0
                 THEN (duration * time_base[1] * avg_frame_rate[1])
                        \div (time_base[2] * avg_frame_rate[2])
                 ELSE 0
        /\ sample_total = <<total_frames_>>

\* C36: every native reference the object acquired (format context, decoder
\* context, filter graph, packet, frames, the hardware device and frames
\* context references) is released exactly once by the time the destructor
\* has run, whichever step of init() failed: none is released twice and none
\* is left.
C36_EveryReferenceReleasedOnce ==
    /\ \A r \in Refs : released[r] <= acquired[r]
    /\ (at[1] = "gone") => \A r \in Refs : released[r] = acquired[r]

\* C33: the frame handed back is a copy in storage of the caller: the data of
\* the C++ caller's matrix and of the array the Python caller holds is a live
\* buffer that still holds the picture it was returned with, whatever the
\* pump and the allocator did on later calls.
C33_ReturnedFrameIsOwnCopy ==
    /\ (caller_mat # NoData) =>
        /\ heap[caller_mat.data].live
        /\ heap[caller_mat.data].id = caller_mat.id
    /\ (py_array # NoData) =>
        /\ heap[py_array.data].live
        /\ heap[py_array.data].id = py_array.id
        /\ py_array.data # caller_mat.data

\* The frames returned so far are distinct and in the order of the stream.
ReturnedInOrder ==
    \A i, j \in 1..Len(returned) : i < j => returned[i] < returned[j]

\* What the session promises its caller: the sequence number counts the
\* frames returned, no frame is returned twice or out of order, and every
\* frame the decoder handed out was returned or is on its way.
SessionConsistent ==
    /\ frame_count_ = Len(returned)
    /\ ReturnedInOrder
    /\ Produced = returned \o InFlight

\* C32: GetNextFrame takes no lock.  As long as no call was entered while
\* another call was in progress (the callers serialize their calls) the
\* session stays consistent; once two calls overlapped, states are reached in
\* which a frame is lost or returned twice.
C32_SerializedCallsKeepSession ==
    ~overlapped => SessionConsistent

C32_Witness ==
    /\ overlapped
    /\ Idle /\ lastWhy = "eos"
    /\ Len(stream) = MaxPkts /\ accepted = read_ids /\ Len(read_ids) = MaxPkts
    /\ dec_q = <<>> /\ flt_q = <<>> /\ frame = NoFrame
    /\ Len(returned) < Len(accepted)
    /\ ~SessionConsistent

====
